---- MODULE Spec2Model ----
(***************************************************************************)
(* Model of the sync core of src/src/sync.cpp: the triplet reconciliation  *)
(* walker (Sync::recursiveSync, Sync::syncItem), the single-folder scan    *)
(* (Sync::scanOne) and the notification intake (Sync::procscanq) in Spec   *)
(* and SpecWalk; the reverse path match score in SpecScore; the assignment *)
(* of filesystem ids after a restart (assignFilesystemIds) in SpecAssign;  *)
(* the state cache queues and table (statecacheadd, statecachedel,         *)
(* cachenodes, changestate) in SpecCache; the move to the local debris     *)
(* (Sync::movetolocaldebris) in SpecDebris; the walker over entries that   *)
(* cannot be opened in SpecOpen; syncItem on a row whose filesystem id is  *)
(* known elsewhere in SpecMove; Spec under the scheduling of the client's  *)
(* main loop in SpecLive; Sync::changestate and its reports to the client  *)
(* in SpecState; Sync::localnodebypath in SpecPath; Sync::deletemissing in *)
(* SpecMissing; the two state cache queues under calls in any order in     *)
(* SpecQueue; SyncConfigBag in SpecBag.  The command serializer exercised  *)
(* by src/gfxworker/tests/commands_test.cpp is in SpecGfx.                 *)
(*                                                                         *)
(* Pointers are modelled as small integers: a LocalNode* is a node id      *)
(* (0 is nullptr, 1 is localroot), a Node* is a cloud handle (0 is         *)
(* nullptr, 1 is the remote root of the sync, -1 the NAME_CONFLICT         *)
(* sentinel).  A local path is the sequence of its leaf names below the    *)
(* sync root.                                                              *)
(***************************************************************************)
EXTENDS Integers, Sequences, FiniteSets, TLC

----------------------------------------------------------------------------
\* Bounds of the model.

\* LocalNode ids 1..MaxNodes (id 1 is localroot).
MaxNodes == 3
\* Cloud handles 1..MaxCloud (handle 1 is the remote root).
MaxCloud == 3
\* Entries in the filesystem below the sync root when the sync starts.
MaxFsInit == 2
\* Children of the remote root when the sync starts.
MaxCloudInit == 2
\* LocalNodes below localroot that the state cache brings back.
MaxCached == 1
\* Number of notifications the watcher raises.
MaxNotify == 1
\* Waiter::ds never grows beyond this.
MaxDs == 40
\* Length of the notification queue.
MaxQueue == 1

\* Waiter::ds advances in steps of this many deciseconds.
TickDs == 20

----------------------------------------------------------------------------
\* Program constants.

SYNCTREE_RESOLVED == 0
SYNCTREE_ACTION_HERE_ONLY == 1
SYNCTREE_ACTION_HERE_AND_BELOW == 2
\* What scanAgain and syncAgain of a LocalNode may be right after init.
NewNodeFlags == {SYNCTREE_RESOLVED, SYNCTREE_ACTION_HERE_AND_BELOW}

SCANNING_DELAY_DS == 5
EXTRA_SCANNING_DELAY_DS == 150
\* "Don't scan a particular folder more frequently than every 2 seconds"
MinScanIntervalDs == 20

NullNode == 0
RootNode == 1
RootHandle == 1
NAME_CONFLICT == -1
UNDEF == -1
\* notification.localnode == (LocalNode*)~0
InvalidLocalNode == -1

FILENODE == "file"
FOLDERNODE == "folder"
NodeTypes == {FILENODE, FOLDERNODE}
\* The type of an FSNode that checkpathOne could not open.
TYPE_UNKNOWN == "unknown"

\* Leaf names.  "b" and "B" are equal on a case-insensitive filesystem.
Names == {"B", "a", "b"}

\* Byte value of a (one byte) leaf name.
Code(n) == CASE n = "B" -> 66 [] n = "a" -> 97 [] n = "b" -> 98 [] OTHER -> 0

\* Case folding used by the comparator on case-insensitive filesystems.
Fold(n) == IF n = "B" THEN "b" ELSE n

NodeIds == 1..MaxNodes
Handles == 1..MaxCloud

\* Leaf names of the entries inside a folder below the sync root.
SubNames == {"a"}

\* Local paths below the sync root: at most two components.
Paths == {<<>>} \cup {<<n>> : n \in Names} \cup {<<n, m>> : n \in Names, m \in SubNames}

VARIABLES
    mSyncConfigs,    \* SyncConfigBag::mSyncConfigs: tag -> config
    mTable,          \* SyncConfigBag::mTable: the rows stored, nextid
    state,           \* Sync::state
    errorCode,       \* Sync::errorCode
    fullscan,        \* Sync::fullscan
    statecachetable, \* Sync::statecachetable: the rows stored, the calls made
    debris,          \* movetolocaldebris: loop counter, havedir, return value
    caseInsensitive, \* mFilesystemType: TRUE when NameCmp folds case
    isnetwork,       \* Sync::isnetwork
    ds,              \* Waiter::ds
    nodes,           \* the LocalNode tree: id -> fields
    fsidnode,        \* client->fsidnode: fsid -> LocalNode id
    insertq,         \* Sync::insertq
    deleteq,         \* Sync::deleteq
    fs,              \* the filesystem below the sync root: path -> entry
    cloud,           \* the cloud tree: handle -> fields
    notifyq,         \* dirnotify->notifyq[q]
    quietTime,       \* client->filesystemNotificationsQuietTime
    stack,           \* the call stack of recursiveSync
    pc,              \* "idle", "run" or "crashed"
    envLeft,         \* notifications the watcher may still raise
    ev,              \* what the last step did
    pass             \* bookkeeping of the current and the previous pass

vars == <<mSyncConfigs, mTable, state, errorCode, fullscan, statecachetable, debris, caseInsensitive, isnetwork, ds, nodes, fsidnode, insertq, deleteq, fs,
          cloud, notifyq, quietTime, stack, pc, envLeft, ev, pass>>

----------------------------------------------------------------------------
\* NameCmp(mFilesystemType): operator() is a strict "less than", compare() is
\* three-way.

NameLess(x, y) ==
    IF caseInsensitive THEN Code(Fold(x)) < Code(Fold(y)) ELSE Code(x) < Code(y)

NameCompare(x, y) ==
    IF NameLess(x, y) THEN -1 ELSE IF NameLess(y, x) THEN 1 ELSE 0

NameEq(x, y) == ~NameLess(x, y) /\ ~NameLess(y, x)

Max(x, y) == IF x >= y THEN x ELSE y

\* A set of leaf names as a sequence in byte order (the order of a
\* localnode_map, and the order in which the model lists a directory).
RECURSIVE NamesInByteOrder(_)
NamesInByteOrder(S) ==
    IF S = {} THEN <<>>
    ELSE LET m == CHOOSE x \in S : \A y \in S : Code(x) <= Code(y)
         IN  <<m>> \o NamesInByteOrder(S \ {m})

RECURSIVE IntsInOrder(_)
IntsInOrder(S) ==
    IF S = {} THEN <<>>
    ELSE LET m == CHOOSE x \in S : \A y \in S : x <= y
         IN  <<m>> \o IntsInOrder(S \ {m})

----------------------------------------------------------------------------
\* The LocalNode tree.

Children(ns, n) == {c \in DOMAIN ns : ns[c].parent = n}

RECURSIVE Subtree(_, _)
Subtree(ns, n) ==
    {n} \cup UNION {Subtree(ns, c) : c \in Children(ns, n)}

\* row.syncNode->children in map order.
ChildrenInMapOrder(ns, n) ==
    LET names == NamesInByteOrder({ns[c].name : c \in Children(ns, n)})
    IN  [i \in 1..Len(names) |->
            CHOOSE c \in Children(ns, n) : ns[c].name = names[i]]

\* FSNode: one entry of a directory listing.  NoFS stands for a null FSNode*.
NoFS == [name |-> "", type |-> "none", fsid |-> UNDEF, isvalid |-> FALSE]


\* LocalNode::getKnownFSDetails: an FSNode synthesised from the cached fields.
getKnownFSDetails(ns, c) ==
    [name |-> ns[c].name, type |-> ns[c].type, fsid |-> ns[c].fsid,
     isvalid |-> ns[c].isvalid]

\* Sync::checkpathOne: the FSNode of one directory entry.  Only files get a
\* fingerprint (genfingerprint is called for FILENODE alone); an entry that
\* fopen cannot open keeps the type, fsid and fingerprint FSNode starts with.
checkpathOne(path) ==
    IF fs[path].blocked
    THEN [name |-> path[Len(path)], type |-> TYPE_UNKNOWN, fsid |-> UNDEF,
          isvalid |-> FALSE]
    ELSE [name |-> path[Len(path)], type |-> fs[path].type, fsid |-> fs[path].fsid,
          isvalid |-> (fs[path].type = FILENODE)]

\* Sync::scanOne: the entries of the folder at localPath; nothing when the
\* path cannot be opened or is not a folder.
scanOne(localPath) ==
    IF localPath # <<>> /\ localPath \notin DOMAIN fs THEN <<>>
    ELSE IF localPath # <<>> /\ fs[localPath].type # FOLDERNODE THEN <<>>
    ELSE LET leaves == NamesInByteOrder(
                 {n \in Names : Append(localPath, n) \in DOMAIN fs})
         IN  [i \in 1..Len(leaves) |-> checkpathOne(Append(localPath, leaves[i]))]

\* Node::syncable and the copy_if of recursiveSync: the cloud children that
\* take part in the sync, in handle order.
CloudChildrenOf(h) ==
    IntsInOrder({c \in DOMAIN cloud : cloud[c].parent = h /\ cloud[c].syncable})

\* Node::canonicalname
canonicalname(h) == cloud[h].name

----------------------------------------------------------------------------
\* Row pairing of recursiveSync.  A row is [cloudNode, syncNode, fsNode].

\* The "while (next != end && !cmp(*iter, *next)) ++next" loops: the index
\* one past the run of names equal to names[i], never beyond last.
RECURSIVE NextGroup(_, _, _, _)
NextGroup(names, i, j, last) ==
    IF j > last THEN j
    ELSE IF NameLess(names[i], names[j]) THEN j
    ELSE NextGroup(names, i, j + 1, last)

\* std::sort of fsChildren under cloudCmpFS.
SortFS(fsL) == SortSeq(fsL, LAMBDA x, y : NameLess(x.name, y.name))

\* std::sort of syncChildren under cloudCmpSync.
SortSync(ns, syL) == SortSeq(syL, LAMBDA x, y : NameLess(ns[x].name, ns[y].name))

\* std::sort of cloudChildren under localCmpNode.
SortCloud(clL) ==
    SortSeq(clL, LAMBDA x, y : NameLess(canonicalname(x), canonicalname(y)))

\* The key localCmpRow sorts a row by: the LocalNode's name, else the FSNode's.
RowName(ns, row) ==
    IF row.syncNode # NullNode THEN ns[row.syncNode].name ELSE row.fsNode.name

\* std::sort of childRows under localCmpRow.
SortRows(ns, rows) ==
    SortSeq(rows, LAMBDA x, y : NameLess(RowName(ns, x), RowName(ns, y)))

\* "Pair up the sorted local and sync lists"
RECURSIVE PairFsSync(_, _, _, _, _, _)
PairFsSync(ns, fsL, syL, fi, si, acc) ==
    LET fsNames == [i \in 1..Len(fsL) |-> fsL[i].name]
        syNames == [i \in 1..Len(syL) |-> ns[syL[i]].name]
        nextFS == NextGroup(fsNames, fi, fi, Len(fsL))
        nextSY == NextGroup(syNames, si, si, Len(syL))
        fsEqualNodeCount == nextFS - fi
        hasFS0 == fi <= Len(fsL)
        hasSY0 == si <= Len(syL)
        relationship ==
            IF hasFS0 /\ hasSY0 THEN NameCompare(fsNames[fi], syNames[si]) ELSE 0
        hasFS == hasFS0 /\ ~(relationship > 0)
        hasSY == hasSY0 /\ ~(relationship < 0)
        row == [cloudNode |-> IF hasFS /\ fsEqualNodeCount > 1
                              THEN NAME_CONFLICT ELSE NullNode,
                syncNode |-> IF hasSY THEN syL[si] ELSE NullNode,
                fsNode |-> IF hasFS THEN fsL[fi] ELSE NoFS]
    IN  IF ~hasFS /\ ~hasSY THEN acc
        ELSE PairFsSync(ns, fsL, syL,
                        IF hasFS THEN nextFS ELSE fi,
                        IF hasSY THEN nextSY ELSE si,
                        Append(acc, row))

\* "int relationship = nameCmp(thisCl->canonicalname(), thisRow->syncNode->name)":
\* the bool of operator() converted to int, so it is 1 or 0 and never negative.
CloudRowRelationship(clName, syName) ==
    IF NameLess(clName, syName) THEN 1 ELSE 0

\* "Pair up the sorted cloud and syncrow lists".  rows[1..rowLast] are the
\* rows of the first pairing; cloud-only rows are appended behind them.
RECURSIVE PairCloudRows(_, _, _, _, _, _)
PairCloudRows(ns, clL, rows, ci, ri, rowLast) ==
    LET clNames == [i \in 1..Len(clL) |-> canonicalname(clL[i])]
        rowNames == [i \in 1..rowLast |-> RowName(ns, rows[i])]
        nextCL == NextGroup(clNames, ci, ci, Len(clL))
        nextRow == NextGroup(rowNames, ri, ri, rowLast)
        cloudEqualNodeCount == nextCL - ci
        hasCl0 == ci <= Len(clL)
        hasRow0 == ri <= rowLast
        relationship ==
            IF hasCl0 /\ hasRow0 /\ rows[ri].syncNode # NullNode
            THEN CloudRowRelationship(clNames[ci], ns[rows[ri].syncNode].name)
            ELSE 0
        hasRow == hasRow0 /\ ~(relationship < 0)
        hasCl == hasCl0 /\ ~(relationship > 0)
        thisCl == IF hasCl THEN clL[ci] ELSE NullNode
        rows2 ==
            IF hasCl /\ cloudEqualNodeCount > 1 THEN rows
            ELSE IF hasRow
                 THEN IF rows[ri].cloudNode # NAME_CONFLICT
                      THEN [rows EXCEPT ![ri].cloudNode = thisCl]
                      ELSE rows
                 ELSE Append(rows, [cloudNode |-> thisCl, syncNode |-> NullNode,
                                    fsNode |-> NoFS])
    IN  IF ~hasCl /\ ~hasRow THEN rows
        ELSE PairCloudRows(ns, clL, rows2,
                           IF hasCl THEN nextCL ELSE ci,
                           IF hasRow THEN nextRow ELSE ri,
                           rowLast)

\* The child rows recursiveSync builds from the three lists.
BuildRows(ns, fsChildren, syncChildren, cloudChildren) ==
    LET paired == PairFsSync(ns, SortFS(fsChildren), SortSync(ns, syncChildren),
                             1, 1, <<>>)
        sorted == SortRows(ns, paired)
    IN  PairCloudRows(ns, SortCloud(cloudChildren), sorted, 1, 1, Len(sorted))


----------------------------------------------------------------------------
\* Pieces of LocalNode and Sync that recursiveSync and syncItem use.

\* LocalNode::setFutureScan / setFutureSync: the monotonic maximum.
setFutureScan(ns, n, flag) ==
    [ns EXCEPT ![n].scanAgain = Max(@, flag)]

setFutureSync(ns, n, flag) ==
    [ns EXCEPT ![n].syncAgain = Max(@, flag)]

\* SyncConfigBag.  A config is [tag, data]; mSyncConfigs keeps [dbid, data]
\* under the tag; the table is [rows, nextid] with rows: id -> [tag, data,
\* good], where good tells whether SyncConfig::unserialize accepts the row.

PutKey(f, k, v) == [x \in DOMAIN f \cup {k} |-> IF x = k THEN v ELSE f[x]]

DropKey(f, k) == [x \in DOMAIN f \ {k} |-> f[x]]

\* The loop of the constructor over the rows of the table, on [map, nextid]:
\* a row that does not unserialize is passed over, std::map::insert keeps the
\* config a tag already has.
RECURSIVE LoadConfigs(_, _, _)
LoadConfigs(bag, rows, ids) ==
    IF ids = << >> THEN bag
    ELSE LET tableId == Head(ids)
             row == rows[tableId]
         IN  IF ~row.good THEN LoadConfigs(bag, rows, Tail(ids))
             ELSE LoadConfigs(
                    [map |-> IF row.tag \in DOMAIN bag.map THEN bag.map
                             ELSE PutKey(bag.map, row.tag,
                                         [dbid |-> tableId, data |-> row.data]),
                     nextid |-> IF tableId > bag.nextid THEN tableId ELSE bag.nextid],
                    rows, Tail(ids))

\* SyncConfigBag::SyncConfigBag over a table that opened with the given rows.
SyncConfigBag(rows) ==
    LET loaded == LoadConfigs([map |-> << >>, nextid |-> 0], rows,
                              IntsInOrder(DOMAIN rows))
    IN  [map |-> loaded.map, table |-> [rows |-> rows, nextid |-> loaded.nextid + 1]]

\* The bag of a client that has stored no config.
NoSyncConfigs == SyncConfigBag(<< >>).map
EmptyConfigTable == SyncConfigBag(<< >>).table

\* An insert that stores a new config without moving nextid on.
InsertKeepingNextId(bag, syncConfig, putOk) ==
    IF ~putOk THEN bag
    ELSE LET id == IF syncConfig.tag \in DOMAIN bag.map
                   THEN bag.map[syncConfig.tag].dbid ELSE bag.table.nextid
         IN  [map |-> PutKey(bag.map, syncConfig.tag,
                             [dbid |-> id, data |-> syncConfig.data]),
              table |-> [bag.table EXCEPT !.rows =
                            PutKey(@, id, [tag |-> syncConfig.tag,
                                           data |-> syncConfig.data, good |-> TRUE])]]

\* SyncConfigBag::insert on [map, table]; putOk is what mTable->put returns.
insert(bag, syncConfig, putOk) ==
    LET row == [tag |-> syncConfig.tag, data |-> syncConfig.data, good |-> TRUE]
    IN  IF syncConfig.tag \notin DOMAIN bag.map
        THEN IF ~putOk THEN bag
             ELSE [map |-> PutKey(bag.map, syncConfig.tag,
                                  [dbid |-> bag.table.nextid, data |-> syncConfig.data]),
                   table |-> [rows |-> PutKey(bag.table.rows, bag.table.nextid, row),
                              nextid |-> bag.table.nextid + 1]]
        ELSE LET tableId == bag.map[syncConfig.tag].dbid
             IN  IF ~putOk THEN bag
                 ELSE [map |-> PutKey(bag.map, syncConfig.tag,
                                      [dbid |-> tableId, data |-> syncConfig.data]),
                       table |-> [bag.table EXCEPT !.rows = PutKey(@, tableId, row)]]

\* SyncConfigBag::removeByTag; delOk is what mTable->del returns.
removeByTag(bag, tag, delOk) ==
    IF tag \in DOMAIN bag.map
    THEN [map |-> DropKey(bag.map, tag),
          table |-> IF delOk
                    THEN [bag.table EXCEPT !.rows = DropKey(@, bag.map[tag].dbid)]
                    ELSE bag.table,
          ret |-> TRUE]
    ELSE [map |-> bag.map, table |-> bag.table, ret |-> FALSE]

\* SyncConfigBag::clear
clear(bag) == [map |-> << >>, table |-> [rows |-> << >>, nextid |-> 0]]

\* syncstate_t, as far as Sync tells the values apart.
SYNC_CANCELED == "SYNC_CANCELED"
SYNC_INITIALSCAN == "SYNC_INITIALSCAN"
SYNC_ACTIVE == "SYNC_ACTIVE"
SYNC_FAILED == "SYNC_FAILED"
SyncStates == {SYNC_CANCELED, SYNC_INITIALSCAN, SYNC_ACTIVE, SYNC_FAILED}

\* SyncError, as far as Sync names its values.
NO_SYNC_ERROR == "NO_SYNC_ERROR"
INVALID_LOCAL_TYPE == "INVALID_LOCAL_TYPE"
UNKNOWN_ERROR == "UNKNOWN_ERROR"
SyncErrors == {NO_SYNC_ERROR, INVALID_LOCAL_TYPE, UNKNOWN_ERROR}

\* Sync::tag, the first argument of every MegaClient::changeSyncState call.
SyncTag == "tag"

\* A changestate that tells the client of every change, also of a
\* cancellation.
ChangeStateTellingAll(sync, newstate, newSyncError) ==
    IF newstate # sync.state \/ newSyncError # sync.errorCode
    THEN [state |-> newstate, errorCode |-> newSyncError, fullscan |-> FALSE,
          calls |-> <<<<SyncTag, newstate, newSyncError>>>>]
    ELSE [state |-> sync.state, errorCode |-> sync.errorCode,
          fullscan |-> sync.fullscan, calls |-> << >>]

\* The body of Sync::changestate on [state, errorCode, fullscan]: the fields
\* afterwards and the calls of client->changeSyncState it made.
ChangeStateBody(sync, newstate, newSyncError) ==
    IF newstate # sync.state \/ newSyncError # sync.errorCode
    THEN [state |-> newstate, errorCode |-> newSyncError, fullscan |-> FALSE,
          calls |-> IF newstate # SYNC_CANCELED
                    THEN <<<<SyncTag, newstate, newSyncError>>>>
                    ELSE << >>]
    ELSE [state |-> sync.state, errorCode |-> sync.errorCode,
          fullscan |-> sync.fullscan, calls |-> << >>]

\* movetolocaldebris is not running.
NoDebrisCall == [i |-> 0, havedir |-> FALSE, ret |-> "none"]

\* A statecachetable that was never opened.
NoTable == [rows |-> {}, calls |-> -1]

\* A statecachetable that holds the rows with the given ids.
TableOf(ids) == [rows |-> ids, calls |-> 0]

\* A statecachedel that also acts on a canceled sync.
DelRegardless(q, ns, l) ==
    <<q[1] \ {l}, IF ns[l].dbid # 0 THEN q[2] \cup {ns[l].dbid} ELSE q[2]>>

\* Sync::statecachedel, on the pair <<insertq, deleteq>>.
statecachedel(q, ns, l) ==
    IF state = SYNC_CANCELED THEN q
    ELSE <<q[1] \ {l}, IF ns[l].dbid # 0 THEN q[2] \cup {ns[l].dbid} ELSE q[2]>>

\* A statecacheadd that leaves the deletion queue alone.
AddKeepingDeletion(q, ns, l) ==
    IF state = SYNC_CANCELED THEN q ELSE <<q[1] \cup {l}, q[2]>>

\* Sync::statecacheadd, on the pair <<insertq, deleteq>>.
statecacheadd(q, ns, l) ==
    IF state = SYNC_CANCELED THEN q
    ELSE <<q[1] \cup {l}, IF ns[l].dbid # 0 THEN q[2] \ {ns[l].dbid} ELSE q[2]>>

\* statecachedel for every node of a set (the destructor of each LocalNode of
\* a deleted subtree reports itself).
RECURSIVE statecachedelAll(_, _, _)
statecachedelAll(q, ns, S) ==
    IF S = {} THEN q
    ELSE LET l == CHOOSE x \in S : TRUE
         IN  statecachedelAll(statecachedel(q, ns, l), ns, S \ {l})

\* LocalNode::setfsid on the index: the node's previous entry goes, the new
\* fsid maps to the node.
setfsidIndex(idx, ns, l, fsid) ==
    LET dropped == [f \in {g \in DOMAIN idx : idx[g] # l} |-> idx[f]]
    IN  [f \in DOMAIN dropped \cup {fsid} |-> IF f = fsid THEN l ELSE dropped[f]]

\* The index without the nodes of S (LocalNode::~LocalNode).
dropFromIndex(idx, S) ==
    [f \in {g \in DOMAIN idx : idx[g] \notin S} |-> idx[f]]

\* A LocalNode as "new LocalNode" plus LocalNode::init leave it: bound to its
\* parent under the leaf name, nothing scanned or synced yet.
NewLocalNode(parent, fsNode, scanFlag, syncFlag) ==
    [parent |-> parent, name |-> fsNode.name, type |-> fsNode.type,
     scanAgain |-> scanFlag, syncAgain |-> syncFlag, lastScanTime |-> 0,
     syncedCloudNodeHandle |-> UNDEF, transfer |-> FALSE, h |-> UNDEF,
     fsid |-> fsNode.fsid, dbid |-> 0, isvalid |-> fsNode.isvalid]

\* The smallest unused LocalNode id (the address operator new returns).
FreeNode(ns) ==
    IF NodeIds \ DOMAIN ns = {} THEN NullNode
    ELSE CHOOSE x \in NodeIds \ DOMAIN ns : \A y \in NodeIds \ DOMAIN ns : x <= y

\* The tree with id l bound to record rec.
WithNode(ns, l, rec) ==
    [x \in DOMAIN ns \cup {l} |-> IF x = l THEN rec ELSE ns[x]]

\* The tree without the nodes of S.
WithoutNodes(ns, S) ==
    [x \in DOMAIN ns \ S |-> ns[x]]

----------------------------------------------------------------------------
\* Sync::recursiveSync, from its entry to the row loop.

\* "nothing to do for this subtree? Skip traversal"
PruneResolved(ns, row) ==
    /\ ns[row.syncNode].syncAgain = SYNCTREE_RESOLVED
    /\ ns[row.syncNode].scanAgain = SYNCTREE_RESOLVED

\* A walker that never waits for commands in flight.
NeverPending(row) == FALSE

\* "visit this node again later when commands are complete"
PrunePending(row) ==
    /\ row.cloudNode # NullNode
    /\ cloud[row.cloudNode].pending # {}

\* A walker that forgets to propagate the full-scan flag.
PropagateScanNowhere(ns, n) == ns

\* "propagate full-scan flags to children"
PropagateScan(ns, n) ==
    IF ns[n].scanAgain = SYNCTREE_ACTION_HERE_AND_BELOW
    THEN [x \in DOMAIN ns |->
            IF x \in Children(ns, n)
            THEN [ns[x] EXCEPT !.scanAgain = SYNCTREE_ACTION_HERE_AND_BELOW]
            ELSE IF x = n
                 THEN [ns[x] EXCEPT !.scanAgain = SYNCTREE_ACTION_HERE_ONLY]
                 ELSE ns[x]]
    ELSE ns

\* "propagate full-sync flags to children"
PropagateSync(ns, n) ==
    IF ns[n].syncAgain = SYNCTREE_ACTION_HERE_AND_BELOW
    THEN [x \in DOMAIN ns |->
            IF x \in Children(ns, n)
            THEN [ns[x] EXCEPT !.syncAgain = SYNCTREE_ACTION_HERE_AND_BELOW]
            ELSE IF x = n
                 THEN [ns[x] EXCEPT !.syncAgain = SYNCTREE_ACTION_HERE_ONLY]
                 ELSE ns[x]]
    ELSE ns

\* "if (row.syncNode->scanAgain == SYNCTREE_ACTION_HERE_ONLY)"
ScanDue(ns, n) == ns[n].scanAgain = SYNCTREE_ACTION_HERE_ONLY

\* A walker without the two second rule.
NeverTooSoon(ns, n, now) == FALSE

\* "if (Waiter::ds - row.syncNode->lastScanTime < 20)"
TooSoon(ns, n, now) == now - ns[n].lastScanTime < MinScanIntervalDs

\* A scan that asks for a sync of the whole subtree.
AfterScanBelow(ns, n, now) ==
    [ns EXCEPT ![n].lastScanTime = now,
               ![n].scanAgain = SYNCTREE_RESOLVED,
               ![n].syncAgain = SYNCTREE_ACTION_HERE_AND_BELOW]

\* The three assignments that follow scanOne.
AfterScan(ns, n, now) ==
    [ns EXCEPT ![n].lastScanTime = now,
               ![n].scanAgain = SYNCTREE_RESOLVED,
               ![n].syncAgain = SYNCTREE_ACTION_HERE_ONLY]

\* "no filesystem side changes so use our current records"
KnownFsChildren(ns, n) ==
    LET cs == ChildrenInMapOrder(ns, n)
    IN  [i \in 1..Len(cs) |-> getKnownFSDetails(ns, cs[i])]

\* One call of recursiveSync up to the row loop, for a row whose syncNode is
\* not null.  kind tells which way the call went:
\*   "resolved", "pending", "toosoon": the three early returns;
\*   "scanned", "known": the rows were built, from a scan or from the records;
\*   "nullcloud": row.cloudNode is null where its children are read.
\* listing is fsChildren, scanned tells whether scanOne produced it.
\* nullCloudBenign tells whether that read yields an empty list.
Visit(ns, row, path, now, nullCloudBenign) ==
    LET n == row.syncNode
        ns1 == PropagateSync(PropagateScan(ns, n), n)
        scanned == ScanDue(ns1, n)
        fsChildren == IF scanned THEN scanOne(path) ELSE KnownFsChildren(ns1, n)
        ns2 == IF scanned THEN AfterScan(ns1, n, now) ELSE ns1
        cloudChildren == IF row.cloudNode = NullNode THEN <<>>
                         ELSE CloudChildrenOf(row.cloudNode)
        rows == BuildRows(ns2, fsChildren, ChildrenInMapOrder(ns2, n), cloudChildren)
        ns3 == [ns2 EXCEPT ![n].scanAgain = SYNCTREE_RESOLVED]
    IN  IF PruneResolved(ns, row)
        THEN [kind |-> "resolved", ns |-> ns, rows |-> <<>>, scanned |-> FALSE,
              listing |-> <<>>]
        ELSE IF PrunePending(row)
        THEN [kind |-> "pending", ns |-> ns, rows |-> <<>>, scanned |-> FALSE,
              listing |-> <<>>]
        ELSE IF scanned /\ TooSoon(ns1, n, now)
        THEN [kind |-> "toosoon", ns |-> ns1, rows |-> <<>>, scanned |-> FALSE,
              listing |-> <<>>]
        ELSE IF row.cloudNode = NullNode /\ ~nullCloudBenign
        THEN [kind |-> "nullcloud", ns |-> ns2, rows |-> <<>>, scanned |-> scanned,
              listing |-> fsChildren]
        ELSE [kind |-> IF scanned THEN "scanned" ELSE "known",
              ns |-> ns3, rows |-> rows, scanned |-> scanned,
              listing |-> fsChildren]


----------------------------------------------------------------------------
\* Sync::syncItem.  st is the part of the state it may change:
\* [ns, idx, q, cl] (tree, fsid index, <<insertq, deleteq>>, cloud).  The
\* result adds the row as syncItem leaves it and act, the branch taken:
\*   "none"       a branch with no code
\*   "upload"     client->startxfer(PUT, row.syncNode, committer)
\*   "putnodes"   client->putnodes(parentRow.cloudNode->nodehandle, ...)
\*   "nullparent" putnodes wanted, parentRow.cloudNode is null
\*   "delete"     delete row.syncNode
\*   "create"     new LocalNode, init, setfsid, statecacheadd
\*   "assert"     the "no entries" branch
\* l is the id a new LocalNode gets; scanFlag and syncFlag are the flags a
\* fresh LocalNode starts with.

SyncItemBranch(ns, row, parentRow) ==
    IF row.syncNode # NullNode
    THEN IF row.fsNode # NoFS
         THEN IF row.cloudNode # NullNode
              THEN "none"
              ELSE IF ns[row.syncNode].syncedCloudNodeHandle = UNDEF
                   THEN IF row.fsNode.type = FILENODE
                        THEN IF ~ns[row.syncNode].transfer /\ parentRow.cloudNode # NullNode
                             THEN "upload"
                             ELSE "none"
                        ELSE IF parentRow.cloudNode # NullNode
                             THEN "putnodes"
                             ELSE "nullparent"
                   ELSE "none"
         ELSE IF row.cloudNode # NullNode
              THEN "none"
              ELSE "delete"
    ELSE IF row.fsNode # NoFS
         THEN IF row.cloudNode # NullNode
              THEN "none"
              ELSE "create"
         ELSE IF row.cloudNode # NullNode
              THEN "none"
              ELSE "assert"

\* The asserts of syncItem: a file's LocalNode has a valid fingerprint before
\* its upload, the FSNode of a new entry has one, and no row is empty.  A
\* failed assert aborts a debug build and is nothing in a release build.
AssertFails(ns, row, act) ==
    \/ act = "upload" /\ ~ns[row.syncNode].isvalid
    \/ act = "create" /\ ~row.fsNode.isvalid
    \/ act = "assert"

\* MegaClient::startxfer(PUT, l): the LocalNode carries the transfer.
startxfer(ns, l, parentHandle) ==
    [ns EXCEPT ![l].h = parentHandle, ![l].transfer = TRUE]

\* MegaClient::putnodes of one new folder: the command is pending on the
\* parent cloud node until it completes.
putnodes(cl, parentHandle, name) ==
    [cl EXCEPT ![parentHandle].pending = @ \cup {name}]

syncItem(st, row, parentRow, l, scanFlag, syncFlag) ==
    LET act == SyncItemBranch(st.ns, row, parentRow)
        same == [ns |-> st.ns, idx |-> st.idx, q |-> st.q, cl |-> st.cl,
                 row |-> row, act |-> act]
        gone == Subtree(st.ns, row.syncNode)
        fresh == NewLocalNode(parentRow.syncNode, row.fsNode, scanFlag, syncFlag)
        grown == WithNode(st.ns, l, fresh)
    IN  CASE act = "upload" ->
               [same EXCEPT !.ns = startxfer(st.ns, row.syncNode, parentRow.cloudNode)]
          [] act = "putnodes" ->
               [same EXCEPT !.cl = putnodes(st.cl, parentRow.cloudNode,
                                            st.ns[row.syncNode].name)]
          [] act = "delete" ->
               [same EXCEPT !.ns = WithoutNodes(st.ns, gone),
                            !.idx = dropFromIndex(st.idx, gone),
                            !.q = statecachedelAll(st.q, st.ns, gone),
                            !.row = [row EXCEPT !.syncNode = NullNode]]
          [] act = "create" ->
               [same EXCEPT !.ns = grown,
                            !.idx = IF row.fsNode.fsid # UNDEF
                                    THEN setfsidIndex(st.idx, grown, l, row.fsNode.fsid)
                                    ELSE st.idx,
                            !.q = statecacheadd(st.q, grown, l)]
          [] OTHER -> same

\* The leaf recursiveSync appends to localPath for a child row: the FSNode's
\* localname, else the LocalNode's, else the cloud node's display name.
RowLeaf(ns, row) ==
    IF row.fsNode # NoFS THEN row.fsNode.name
    ELSE IF row.syncNode # NullNode THEN ns[row.syncNode].name
    ELSE IF row.cloudNode # NullNode THEN cloud[row.cloudNode].name
    ELSE ""

\* The condition under which the row loop calls recursiveSync(childRow).
RecurseCond(ns, row, childRow) ==
    /\ row.cloudNode # NullNode
    /\ row.syncNode # NullNode
    /\ row.fsNode # NoFS
    /\ ns[row.syncNode].type # FILENODE


----------------------------------------------------------------------------
\* The state machine.

RootFS == [name |-> "", type |-> FOLDERNODE, fsid |-> 0, isvalid |-> FALSE]

\* The row the sync loop passes to recursiveSync for the sync root.
RootRow == [cloudNode |-> RootHandle, syncNode |-> RootNode, fsNode |-> RootFS]

\* localroot after Sync::Sync: a folder without parent; a full scan is due,
\* syncAgain is as LocalNode::init left it.
RootLocalNode(flag) ==
    [parent |-> NullNode, name |-> "", type |-> FOLDERNODE,
     scanAgain |-> SYNCTREE_ACTION_HERE_AND_BELOW, syncAgain |-> flag,
     lastScanTime |-> 0, syncedCloudNodeHandle |-> RootHandle, transfer |-> FALSE,
     h |-> UNDEF, fsid |-> UNDEF, dbid |-> 0, isvalid |-> FALSE]

\* The remote root, with the commands in flight on it.
RootCloudNode(pending) ==
    [parent |-> NullNode, name |-> "", type |-> FOLDERNODE, pending |-> pending,
     syncable |-> TRUE]

NewFrame(row, path, ns) ==
    [row |-> row, path |-> path, rows |-> <<>>, i |-> 0, phase |-> "enter",
     ret |-> TRUE, kind |-> "", pre |-> ns, dispatched |-> <<>>]

Top == stack[Len(stack)]

SetTop(stk, f) == [stk EXCEPT ![Len(stk)] = f]

\* The filesystem id (inode) of the entry at path.
RECURSIVE FsidAt(_)
FsidAt(path) ==
    IF path = << >> THEN 0
    ELSE 4 * FsidAt(SubSeq(path, 1, Len(path) - 1))
         + (CASE path[Len(path)] = "B" -> 1 [] path[Len(path)] = "a" -> 2 [] OTHER -> 3)

\* The filesystems the sync may start on, with leaf names from names:
\* path -> type, every entry inside a folder.
FsConfigs(names) ==
    {f \in UNION {[D -> NodeTypes] :
              D \in {S \in SUBSET {p \in Paths \ {<< >>} : p[1] \in names} :
                         Cardinality(S) <= MaxFsInit}} :
        \A p \in DOMAIN f :
           Len(p) > 1 => /\ SubSeq(p, 1, Len(p) - 1) \in DOMAIN f
                         /\ f[SubSeq(p, 1, Len(p) - 1)] = FOLDERNODE}

\* The cloud trees the sync may start on: the names of the children of the
\* remote root, in handle order.
CloudConfigs(names) ==
    {c \in UNION {[1..k -> names] : k \in 0..MaxCloudInit} :
        \A i \in 1..(Len(c) - 1) : Code(c[i]) <= Code(c[i + 1])}

\* The trees readstatecache may rebuild below localroot: name -> type.
CachedConfigs(names) ==
    UNION {[D -> NodeTypes] :
              D \in {S \in SUBSET names : Cardinality(S) <= MaxCached}}

\* A LocalNode as addstatecachechildren leaves it: init, then the cached
\* fsid and dbid.
CachedLocalNode(id, name, type, flag) ==
    [NewLocalNode(RootNode, [name |-> name, type |-> type,
                             fsid |-> FsidAt(<<name>>), isvalid |-> type = FILENODE],
                  flag, flag)
     EXCEPT !.dbid = id]

\* The LocalNode tree after Sync::Sync and readstatecache.
InitialNodes(cached, flag) ==
    LET names == NamesInByteOrder(DOMAIN cached)
    IN  [id \in 1..(Len(names) + 1) |->
            IF id = RootNode THEN RootLocalNode(flag)
            ELSE CachedLocalNode(id, names[id - 1], cached[names[id - 1]], flag)]

\* The state after Sync::Sync, for a sync whose surroundings use the leaf
\* names of names.
Start(names) ==
    /\ mSyncConfigs = NoSyncConfigs /\ mTable = EmptyConfigTable
    /\ state = SYNC_INITIALSCAN /\ errorCode = NO_SYNC_ERROR /\ fullscan = TRUE
    /\ caseInsensitive \in BOOLEAN
    /\ isnetwork = FALSE
    /\ ds = MinScanIntervalDs
    /\ \E cached \in CachedConfigs(names), flag \in NewNodeFlags :
         /\ \A x, y \in DOMAIN cached : x # y => ~NameEq(x, y)
         /\ nodes = InitialNodes(cached, flag)
    /\ fsidnode = [f \in {nodes[l].fsid : l \in DOMAIN nodes \ {RootNode}} |->
                     CHOOSE l \in DOMAIN nodes \ {RootNode} : nodes[l].fsid = f]
    /\ insertq = {}
    /\ deleteq = {}
    /\ statecachetable = TableOf({nodes[l].dbid : l \in DOMAIN nodes} \ {0})
    /\ debris = NoDebrisCall
    /\ \E f \in FsConfigs(names) :
         fs = [p \in DOMAIN f |-> [type |-> f[p], fsid |-> FsidAt(p),
                                   blocked |-> FALSE]]
    /\ \E c \in CloudConfigs(names), pending \in SUBSET SubNames :
         cloud = [h \in 1..(Len(c) + 1) |->
                    IF h = RootHandle THEN RootCloudNode(pending)
                    ELSE [parent |-> RootHandle, name |-> c[h - 1], type |-> FOLDERNODE,
                          pending |-> {}, syncable |-> TRUE]]
    /\ notifyq = << >>
    /\ quietTime = 0
    /\ stack = << >>
    /\ pc = "idle"
    /\ envLeft = MaxNotify
    /\ ev = [op |-> "init"]
    /\ pass = [prevDone |-> FALSE, second |-> FALSE, effects |-> FALSE]

\* A sync in surroundings that use one leaf name.
Init == Start(SubNames)

\* A sync in surroundings that use every leaf name.
InitWalk == Start(Names)

\* The sync loop calls recursiveSync on the root row.
StartPass ==
    /\ pc = "idle"
    /\ notifyq = << >>
    /\ pc' = "run"
    /\ stack' = <<NewFrame(RootRow, << >>, nodes)>>
    /\ ev' = [op |-> "start"]
    /\ pass' = [prevDone |-> FALSE, second |-> pass.prevDone, effects |-> FALSE]
    /\ UNCHANGED <<mSyncConfigs, mTable, state, errorCode, fullscan, statecachetable, debris>>
    /\ UNCHANGED <<caseInsensitive, isnetwork, ds, nodes, fsidnode, insertq, deleteq,
                   fs, cloud, notifyq, quietTime, envLeft>>

\* recursiveSync from its entry to the row loop (or to an early return).
\* Reading through a null row.syncNode or a null row.cloudNode is undefined
\* behaviour: the process crashes, or the read is harmless (the call returns
\* true, respectively sees no cloud children).
Enter ==
    /\ pc = "run"
    /\ Top.phase = "enter"
    /\ \E benign \in BOOLEAN :
         IF Top.row.syncNode = NullNode
         THEN /\ UNCHANGED nodes
              /\ IF benign
                 THEN /\ stack' = SetTop(stack, [Top EXCEPT !.phase = "done",
                                                            !.kind = "nullsync"])
                      /\ pc' = "run"
                 ELSE /\ stack' = stack
                      /\ pc' = "crashed"
              /\ ev' = [op |-> "enter", node |-> NullNode, kind |-> "nullsync",
                        crashed |-> ~benign, scanned |-> FALSE, rows |-> <<>>,
                        listing |-> <<>>, at |-> ds, pre |-> nodes]
         ELSE LET v == Visit(nodes, Top.row, Top.path, ds, benign)
                  early == v.kind \in {"resolved", "pending", "toosoon"}
              IN  /\ nodes' = v.ns
                  /\ IF v.kind = "nullcloud"
                     THEN /\ stack' = stack
                          /\ pc' = "crashed"
                     ELSE /\ stack' = SetTop(stack,
                                [Top EXCEPT !.phase = IF early \/ Len(v.rows) = 0
                                                      THEN "done" ELSE "loop",
                                            !.kind = v.kind,
                                            !.rows = v.rows,
                                            !.i = 1])
                          /\ pc' = "run"
                  /\ ev' = [op |-> "enter", node |-> Top.row.syncNode,
                            kind |-> v.kind, crashed |-> v.kind = "nullcloud",
                            scanned |-> v.scanned, rows |-> v.rows,
                            listing |-> v.listing, at |-> ds, pre |-> nodes]
    /\ UNCHANGED <<mSyncConfigs, mTable, state, errorCode, fullscan, statecachetable, debris>>
    /\ UNCHANGED <<caseInsensitive, isnetwork, ds, fsidnode, insertq, deleteq, fs,
                   cloud, notifyq, quietTime, envLeft, pass>>

\* One turn of the row loop: skip a NAME_CONFLICT row; otherwise syncItem,
\* then recursiveSync(childRow) when RecurseCond holds.
Dispatch ==
    /\ pc = "run"
    /\ Top.phase = "loop"
    /\ LET childRow == Top.rows[Top.i]
           next == IF Top.i = Len(Top.rows)
                   THEN [Top EXCEPT !.phase = "done"]
                   ELSE [Top EXCEPT !.i = @ + 1]
       IN  IF childRow.cloudNode = NAME_CONFLICT
           THEN /\ stack' = SetTop(stack, next)
                /\ ev' = [op |-> "skip", parent |-> Top.row.syncNode, row |-> childRow]
                /\ UNCHANGED <<nodes, fsidnode, insertq, deleteq, cloud, pc, pass>>
           ELSE LET act == SyncItemBranch(nodes, childRow, Top.row)
                    leaf == RowLeaf(nodes, childRow)
                    aborts == AssertFails(nodes, childRow, act)
                IN  \E scanFlag \in IF act = "create" THEN NewNodeFlags ELSE {SYNCTREE_RESOLVED},
                       benign \in IF act = "nullparent" \/ aborts THEN BOOLEAN ELSE {TRUE} :
                      LET l == FreeNode(nodes)
                          st == [ns |-> nodes, idx |-> fsidnode,
                                 q |-> <<insertq, deleteq>>, cl |-> cloud]
                          r == IF aborts /\ ~benign
                               THEN [ns |-> nodes, idx |-> fsidnode,
                                     q |-> <<insertq, deleteq>>, cl |-> cloud,
                                     row |-> childRow, act |-> act]
                               ELSE syncItem(st, childRow, Top.row, l, scanFlag, scanFlag)
                          recurse == RecurseCond(r.ns, Top.row, r.row)
                          noted == [Top EXCEPT !.rows[Top.i] = r.row,
                                               !.dispatched = Append(@, leaf)]
                          noted2 == IF Top.i = Len(Top.rows)
                                    THEN [noted EXCEPT !.phase = "done"]
                                    ELSE [noted EXCEPT !.i = @ + 1]
                      IN  /\ act = "create" => l # NullNode
                          /\ nodes' = r.ns
                          /\ fsidnode' = r.idx
                          /\ insertq' = r.q[1]
                          /\ deleteq' = r.q[2]
                          /\ cloud' = r.cl
                          /\ pass' = [pass EXCEPT !.effects =
                                        @ \/ /\ ~(aborts /\ ~benign)
                                             /\ act \in {"upload", "putnodes", "nullparent",
                                                          "delete", "create"}]
                          /\ ev' = [op |-> "item", parent |-> Top.row.syncNode,
                                    row |-> childRow, act |-> act, leaf |-> leaf,
                                    recursed |-> benign /\ recurse,
                                    crashed |-> ~benign, created |-> l,
                                    pre |-> nodes]
                          /\ IF ~benign
                             THEN /\ pc' = "crashed"
                                  /\ stack' = stack
                             ELSE /\ pc' = "run"
                                  /\ stack' =
                                       IF recurse
                                       THEN Append(SetTop(stack, noted),
                                                   NewFrame(r.row, Append(Top.path, leaf), r.ns))
                                       ELSE SetTop(stack, noted2)
    /\ UNCHANGED <<mSyncConfigs, mTable, state, errorCode, fullscan, statecachetable, debris>>
    /\ UNCHANGED <<caseInsensitive, isnetwork, ds, fs, notifyq, quietTime, envLeft>>

\* recursiveSync returns: to the row loop of its caller, or to the sync loop.
Return ==
    /\ pc = "run"
    /\ Top.phase = "done"
    /\ ev' = [op |-> "return"]
    /\ IF Len(stack) = 1
       THEN /\ stack' = << >>
            /\ pc' = "idle"
            /\ pass' = [pass EXCEPT !.prevDone = TRUE, !.second = FALSE]
            /\ UNCHANGED nodes
       ELSE LET caller == stack[Len(stack) - 1]
                n == caller.row.syncNode
                rest == SubSeq(stack, 1, Len(stack) - 1)
            IN  /\ pc' = "run"
                /\ UNCHANGED pass
                /\ IF Top.ret
                   THEN /\ UNCHANGED nodes
                        /\ stack' = SetTop(rest,
                              IF caller.i = Len(caller.rows)
                              THEN [caller EXCEPT !.phase = "done"]
                              ELSE [caller EXCEPT !.i = @ + 1])
                   ELSE /\ nodes' = setFutureScan(nodes, n, SYNCTREE_ACTION_HERE_ONLY)
                        /\ stack' = SetTop(rest, [caller EXCEPT !.phase = "done",
                                                                !.ret = FALSE])
    /\ UNCHANGED <<mSyncConfigs, mTable, state, errorCode, fullscan, statecachetable, debris>>
    /\ UNCHANGED <<caseInsensitive, isnetwork, ds, fsidnode, insertq, deleteq, fs,
                   cloud, notifyq, quietTime, envLeft>>


----------------------------------------------------------------------------
\* Notification intake.

\* Sync::localnodebypath for a start node l and a path relative to it:
\* [node, parent, residual].  node is NullNode when a component is missing.
\* LocalNode::slocalname as a leaf name; NoShortName when the node has none.
NoShortName == ""
ShortNameOf(ns, c) ==
    IF "sname" \in DOMAIN ns[c] THEN ns[c].sname ELSE NoShortName

\* l->children.find(component), and failing that l->schildren.find(component).
FindChild(ns, l, component) ==
    LET byName == {c \in Children(ns, l) : ns[c].name = component}
        byShortName == {c \in Children(ns, l) :
                          /\ ShortNameOf(ns, c) # NoShortName
                          /\ ShortNameOf(ns, c) = component}
    IN  IF byName # {} THEN byName ELSE byShortName

\* A walk that looks at the names of the children only.
RECURSIVE WalkByNameOnly(_, _, _, _)
WalkByNameOnly(ns, l, path, parent) ==
    IF path = << >> THEN [node |-> l, parent |-> parent, residual |-> << >>]
    ELSE LET hit == {c \in Children(ns, l) : ns[c].name = Head(path)}
         IN  IF hit = {}
             THEN [node |-> NullNode, parent |-> l, residual |-> path]
             ELSE WalkByNameOnly(ns, CHOOSE c \in hit : TRUE, Tail(path), l)

RECURSIVE localnodebypath(_, _, _, _)
localnodebypath(ns, l, path, parent) ==
    IF path = << >> THEN [node |-> l, parent |-> parent, residual |-> << >>]
    ELSE LET hit == FindChild(ns, l, Head(path))
         IN  IF hit = {}
             THEN [node |-> NullNode, parent |-> l, residual |-> path]
             ELSE localnodebypath(ns, CHOOSE c \in hit : TRUE, Tail(path), l)

\* localroot->localname, component by component.
RootPrefix == <<"r">>

\* LocalPath::isContainingPathOf: path begins with the components of prefix.
isContainingPathOf(prefix, path) ==
    /\ Len(path) >= Len(prefix)
    /\ SubSeq(path, 1, Len(prefix)) = prefix

\* Sync::localnodebypath called with l == NULL allowed: the path is then a
\* full sync path and the walk starts at localroot behind the root prefix.
localnodebypathOrRoot(ns, l, localpath, parent) ==
    IF l = NullNode
    THEN IF ~isContainingPathOf(RootPrefix, localpath)
         THEN [node |-> NullNode, parent |-> NullNode, residual |-> << >>]
         ELSE localnodebypath(ns, RootNode,
                              SubSeq(localpath, Len(RootPrefix) + 1, Len(localpath)),
                              parent)
    ELSE localnodebypath(ns, l, localpath, parent)

\* The quiet time one notification asks for.
NotificationDelay(ns, l) ==
    IF isnetwork /\ ns[l].type = FILENODE
    THEN EXTRA_SCANNING_DELAY_DS ELSE SCANNING_DELAY_DS

\* The body of the procscanq loop for one notification, on [ns, quiet].
MarkOne(st, notification, now) ==
    IF notification.localnode = InvalidLocalNode THEN st
    ELSE LET found == localnodebypath(st.ns, notification.localnode,
                                      notification.path, NullNode)
             flag == IF found.residual = << >> THEN SYNCTREE_ACTION_HERE_ONLY
                     ELSE SYNCTREE_ACTION_HERE_AND_BELOW
         IN  IF found.node = NullNode THEN st
             ELSE [ns |-> setFutureSync(setFutureScan(st.ns, found.node, flag),
                                        found.node, flag),
                   quiet |-> now + NotificationDelay(st.ns, notification.localnode)]

RECURSIVE MarkAll(_, _, _)
MarkAll(st, q, now) ==
    IF q = << >> THEN st ELSE MarkAll(MarkOne(st, Head(q), now), Tail(q), now)

\* Sync::procscanq: drain the queue, marking the tree.
procscanq ==
    /\ pc = "idle"
    /\ notifyq # << >>
    /\ LET r == MarkAll([ns |-> nodes, quiet |-> quietTime], notifyq, ds)
       IN  /\ nodes' = r.ns
           /\ quietTime' = r.quiet
    /\ notifyq' = << >>
    /\ ev' = [op |-> "procscanq", q |-> notifyq, pre |-> nodes, at |-> ds]
    /\ pass' = [pass EXCEPT !.prevDone = FALSE]
    /\ UNCHANGED <<mSyncConfigs, mTable, state, errorCode, fullscan, statecachetable, debris>>
    /\ UNCHANGED <<caseInsensitive, isnetwork, ds, fsidnode, insertq, deleteq, fs,
                   cloud, stack, pc, envLeft>>

----------------------------------------------------------------------------
\* The environment: the clock, the filesystem, the watcher, the cloud.

NotifyPaths == {<< >>} \cup {<<n>> : n \in SubNames}

\* Waiter::ds advances.
Tick ==
    /\ pc = "idle"
    /\ ds + TickDs <= MaxDs
    /\ ds' = ds + TickDs
    /\ ev' = [op |-> "env"]
    /\ UNCHANGED <<mSyncConfigs, mTable, state, errorCode, fullscan, statecachetable, debris>>
    /\ UNCHANGED <<caseInsensitive, isnetwork, nodes, fsidnode, insertq, deleteq, fs,
                   cloud, notifyq, quietTime, stack, pc, envLeft, pass>>

\* The watcher thread queues a notification.
Notify ==
    /\ pc = "idle"
    /\ envLeft > 0
    /\ envLeft' = envLeft - 1
    /\ Len(notifyq) < MaxQueue
    /\ \E l \in DOMAIN nodes \cup {InvalidLocalNode}, path \in NotifyPaths :
         notifyq' = Append(notifyq, [localnode |-> l, path |-> path])
    /\ ev' = [op |-> "env"]
    /\ pass' = [pass EXCEPT !.prevDone = FALSE]
    /\ UNCHANGED <<mSyncConfigs, mTable, state, errorCode, fullscan, statecachetable, debris>>
    /\ UNCHANGED <<caseInsensitive, isnetwork, ds, nodes, fsidnode, insertq, deleteq,
                   fs, cloud, quietTime, stack, pc>>

FreeHandle ==
    IF Handles \ DOMAIN cloud = {} THEN NullNode
    ELSE CHOOSE x \in Handles \ DOMAIN cloud : \A y \in Handles \ DOMAIN cloud : x <= y

\* A putnodes command completes: the new folder appears below its parent.
CommandDone ==
    /\ pc = "idle"
    /\ \E parent \in DOMAIN cloud, name \in Names :
         /\ name \in cloud[parent].pending
         /\ cloud' =
              LET cleared == [cloud EXCEPT ![parent].pending = @ \ {name}]
              IN  IF FreeHandle = NullNode THEN cleared
                  ELSE [h \in DOMAIN cloud \cup {FreeHandle} |->
                          IF h = FreeHandle
                          THEN [parent |-> parent, name |-> name, type |-> FOLDERNODE,
                                pending |-> {}, syncable |-> TRUE]
                          ELSE cleared[h]]
    /\ ev' = [op |-> "env"]
    /\ pass' = [pass EXCEPT !.prevDone = FALSE]
    /\ UNCHANGED <<mSyncConfigs, mTable, state, errorCode, fullscan, statecachetable, debris>>
    /\ UNCHANGED <<caseInsensitive, isnetwork, ds, nodes, fsidnode, insertq, deleteq,
                   fs, notifyq, quietTime, stack, pc, envLeft>>

Next ==
    \/ StartPass
    \/ Enter
    \/ Dispatch
    \/ Return
    \/ procscanq
    \/ Tick
    \/ Notify
    \/ CommandDone

Spec == Init /\ [][Next]_vars

\* The same sync under the scheduling of the client's main loop.  Each turn
\* of the loop reads the clock, handles the commands that have completed,
\* takes the queued notifications and runs a pass, so each of these is taken
\* again and again whenever it can be taken again and again (strong fairness:
\* none of them can be taken in the middle of a pass); every step of a pass is
\* taken.  The clock advances while it can.  The watcher is under no
\* obligation to raise notifications.
\* Enter can be taken exactly when a frame is at its entry, so weak fairness
\* of Enter is written with that condition in the place of ENABLED.
EnterFairness ==
    \/ []<>~(pc = "run" /\ Top.phase = "enter")
    \/ []<><<Enter>>_vars

Fairness ==
    /\ SF_vars(StartPass)
    /\ EnterFairness
    /\ WF_vars(Dispatch)
    /\ WF_vars(Return)
    /\ SF_vars(procscanq)
    /\ SF_vars(Tick)
    /\ SF_vars(CommandDone)

SpecLive == Init /\ [][Next]_vars /\ Fairness

\* The sync loop alone: passes of recursiveSync over unchanging surroundings.
NextWalk ==
    \/ StartPass
    \/ Enter
    \/ Dispatch
    \/ Return

SpecWalk == InitWalk /\ [][NextWalk]_vars

\* A new sync over a local folder with one entry that fopen may fail to open
\* for a while (a file some other program holds locked).
InitOpen ==
    /\ mSyncConfigs = NoSyncConfigs /\ mTable = EmptyConfigTable
    /\ state = SYNC_INITIALSCAN /\ errorCode = NO_SYNC_ERROR /\ fullscan = TRUE
    /\ caseInsensitive \in BOOLEAN
    /\ isnetwork = FALSE
    /\ ds = MinScanIntervalDs
    /\ \E flag \in NewNodeFlags : nodes = InitialNodes(<< >>, flag)
    /\ fsidnode = << >>
    /\ insertq = {}
    /\ deleteq = {}
    /\ statecachetable = TableOf({})
    /\ debris = NoDebrisCall
    /\ \E name \in SubNames, type \in NodeTypes, blocked \in BOOLEAN :
         fs = [p \in {<<name>>} |-> [type |-> type, fsid |-> FsidAt(p),
                                     blocked |-> blocked]]
    /\ \E pending \in SUBSET SubNames : cloud = <<RootCloudNode(pending)>>
    /\ notifyq = << >>
    /\ quietTime = 0
    /\ stack = << >>
    /\ pc = "idle"
    /\ envLeft = MaxNotify
    /\ ev = [op |-> "init"]
    /\ pass = [prevDone |-> FALSE, second |-> FALSE, effects |-> FALSE]

\* The entry can be opened from now on.
Unblock ==
    /\ \E p \in DOMAIN fs :
         /\ fs[p].blocked
         /\ fs' = [fs EXCEPT ![p].blocked = FALSE]
    /\ ev' = [op |-> "env"]
    /\ pass' = [pass EXCEPT !.prevDone = FALSE]
    /\ UNCHANGED <<mSyncConfigs, mTable, state, errorCode, fullscan, statecachetable, debris>>
    /\ UNCHANGED <<caseInsensitive, isnetwork, ds, nodes, fsidnode, insertq, deleteq,
                   cloud, notifyq, quietTime, stack, pc, envLeft>>

NextOpen ==
    \/ StartPass
    \/ Enter
    \/ Dispatch
    \/ Return
    \/ procscanq
    \/ Tick
    \/ Notify
    \/ CommandDone
    \/ Unblock

SpecOpen == InitOpen /\ [][NextOpen]_vars

\* A sync restarted on a tree whose state cache knows the folders "a" (node
\* 2) and "b" (node 3) and the entry "a" inside one of them (node 4); the
\* user has moved that entry into the other folder, where it kept its fsid.
\* The pass has paired the rows of both folders; stack holds, in the order of
\* the row loops, the rows syncItem is still to get, each with its parent row.
MoveFolderName(l) == IF l = 2 THEN "a" ELSE "b"

MoveFolderRow(l, ns) ==
    [cloudNode |-> l, syncNode |-> l, fsNode |-> getKnownFSDetails(ns, l)]

MoveTree(from, type, synced, flag) ==
    [l \in 1..4 |->
       IF l = RootNode THEN [RootLocalNode(flag) EXCEPT !.scanAgain = SYNCTREE_RESOLVED]
       ELSE IF l = 4
       THEN [CachedLocalNode(4, "a", type, flag)
               EXCEPT !.parent = from,
                      !.fsid = FsidAt(<<MoveFolderName(from), "a">>),
                      !.syncedCloudNodeHandle = IF synced THEN 4 ELSE UNDEF]
       ELSE [CachedLocalNode(l, MoveFolderName(l), FOLDERNODE, flag)
               EXCEPT !.syncedCloudNodeHandle = l]]

InitMove ==
    /\ mSyncConfigs = NoSyncConfigs /\ mTable = EmptyConfigTable
    /\ state = SYNC_ACTIVE /\ errorCode = NO_SYNC_ERROR /\ fullscan = FALSE
    /\ caseInsensitive \in BOOLEAN
    /\ isnetwork = FALSE
    /\ ds = MinScanIntervalDs
    /\ debris = NoDebrisCall
    /\ insertq = {} /\ deleteq = {}
    /\ notifyq = << >> /\ quietTime = 0 /\ envLeft = 0
    /\ pc = "run"
    /\ ev = [op |-> "init"]
    /\ pass = [prevDone |-> FALSE, second |-> FALSE, effects |-> FALSE]
    /\ \E from \in {2, 3}, type \in NodeTypes, synced \in BOOLEAN, flag \in NewNodeFlags :
         LET to == 5 - from
             moved == <<MoveFolderName(to), "a">>
             gone == [cloudNode |-> IF synced THEN 4 ELSE NullNode, syncNode |-> 4,
                      fsNode |-> NoFS]
         IN  /\ nodes = MoveTree(from, type, synced, flag)
             /\ fsidnode = [f \in {nodes[l].fsid : l \in 2..4} |->
                              CHOOSE l \in 2..4 : nodes[l].fsid = f]
             /\ statecachetable = TableOf({2, 3, 4})
             /\ fs = [q \in {<<"a">>, <<"b">>, moved} |->
                        [type |-> IF q = moved THEN type ELSE FOLDERNODE,
                         fsid |-> IF q = moved THEN nodes[4].fsid ELSE FsidAt(q),
                         blocked |-> FALSE]]
             /\ cloud = [h \in 1..(IF synced THEN 4 ELSE 3) |->
                           IF h = RootHandle THEN RootCloudNode({})
                           ELSE [parent |-> IF h = 4 THEN from ELSE RootHandle,
                                 name |-> IF h = 4 THEN "a" ELSE MoveFolderName(h),
                                 type |-> IF h = 4 THEN type ELSE FOLDERNODE,
                                 pending |-> {}, syncable |-> TRUE]]
             /\ stack = IF from = 2
                        THEN <<[row |-> gone, parentRow |-> MoveFolderRow(2, nodes)],
                               [row |-> [cloudNode |-> NullNode, syncNode |-> NullNode,
                                         fsNode |-> checkpathOne(moved)],
                                parentRow |-> MoveFolderRow(3, nodes)]>>
                        ELSE <<[row |-> [cloudNode |-> NullNode, syncNode |-> NullNode,
                                         fsNode |-> checkpathOne(moved)],
                                parentRow |-> MoveFolderRow(2, nodes)],
                               [row |-> gone, parentRow |-> MoveFolderRow(3, nodes)]>>

\* syncItem gets the next of the rows.
MoveItem ==
    /\ pc = "run"
    /\ stack # << >>
    /\ LET childRow == Head(stack).row
           parentRow == Head(stack).parentRow
           act == SyncItemBranch(nodes, childRow, parentRow)
           aborts == AssertFails(nodes, childRow, act)
       IN  \E scanFlag \in IF act = "create" THEN NewNodeFlags ELSE {SYNCTREE_RESOLVED},
              benign \in IF aborts THEN BOOLEAN ELSE {TRUE} :
             LET st == [ns |-> nodes, idx |-> fsidnode,
                        q |-> <<insertq, deleteq>>, cl |-> cloud]
                 r == IF ~benign
                      THEN [ns |-> nodes, idx |-> fsidnode, q |-> <<insertq, deleteq>>,
                            cl |-> cloud, row |-> childRow, act |-> act]
                      ELSE syncItem(st, childRow, parentRow, 5, scanFlag, scanFlag)
             IN  /\ nodes' = r.ns
                 /\ fsidnode' = r.idx
                 /\ insertq' = r.q[1]
                 /\ deleteq' = r.q[2]
                 /\ cloud' = r.cl
                 /\ pc' = IF benign THEN "run" ELSE "crashed"
                 /\ stack' = IF benign THEN Tail(stack) ELSE stack
                 /\ ev' = [op |-> "item", parent |-> parentRow.syncNode,
                           row |-> childRow, act |-> act,
                           leaf |-> RowLeaf(nodes, childRow),
                           recursed |-> benign /\ RecurseCond(r.ns, parentRow, r.row),
                           crashed |-> ~benign, created |-> 5, pre |-> nodes]
    /\ UNCHANGED <<mSyncConfigs, mTable, state, errorCode, fullscan, statecachetable, debris>>
    /\ UNCHANGED <<caseInsensitive, isnetwork, ds, fs, notifyq, quietTime, envLeft, pass>>

NextMove == MoveItem

SpecMove == InitMove /\ [][NextMove]_vars

----------------------------------------------------------------------------
\* Filesystem-id assignment after a restart: the reverse path match score.

MaxPathLen == 3

\* fsaccess.localseparator, and the bytes a local path is made of.
Sep == "/"
PathBytes == {Sep, "x", "z"}

\* The local paths of at most n bytes.
BytePaths(n) == UNION {[1..k -> PathBytes] : k \in 0..n}

\* The while loop of computeReversePathMatchScore: index bytes matched from
\* the tail, separatorBias separators among them, acc the size of
\* "accumulated" (the bytes matched since the last separator).
RECURSIVE ReverseMatchLoop(_, _, _, _, _)
ReverseMatchLoop(path1, path2, index, separatorBias, acc) ==
    IF /\ index <= Len(path1) - 1
       /\ index <= Len(path2) - 1
       /\ path1[Len(path1) - index] = path2[Len(path2) - index]
    THEN IF path1[Len(path1) - index] = Sep
         THEN ReverseMatchLoop(path1, path2, index + 1, separatorBias + 1, 0)
         ELSE ReverseMatchLoop(path1, path2, index + 1, separatorBias, acc + 1)
    ELSE [index |-> index, separatorBias |-> separatorBias, acc |-> acc]

\* A score whose full-match test looks at the first path only.
ScoreFirstPathOnly(path1, path2) ==
    IF path1 = << >> \/ path2 = << >> THEN 0
    ELSE LET r == ReverseMatchLoop(path1, path2, 0, 0, 0)
         IN  IF r.index > Len(path1) - 1
             THEN r.index - r.separatorBias
             ELSE r.index - r.separatorBias - r.acc

\* A score that counts the bytes of an unfinished component as well.
ScoreWithPartialComponent(path1, path2) ==
    IF path1 = << >> \/ path2 = << >> THEN 0
    ELSE LET r == ReverseMatchLoop(path1, path2, 0, 0, 0)
         IN  r.index - r.separatorBias

computeReversePathMatchScore(path1, path2) ==
    IF path1 = << >> \/ path2 = << >> THEN 0
    ELSE LET r == ReverseMatchLoop(path1, path2, 0, 0, 0)
         IN  IF r.index > Len(path1) - 1 /\ r.index > Len(path2) - 1
             THEN r.index - r.separatorBias
             ELSE r.index - r.separatorBias - r.acc

\* The part of the sync engine's state a computation on paths leaves alone.
SyncAtRest ==
    /\ mSyncConfigs = NoSyncConfigs /\ mTable = EmptyConfigTable
    /\ state = SYNC_INITIALSCAN /\ errorCode = NO_SYNC_ERROR /\ fullscan = TRUE /\ statecachetable = NoTable
    /\ debris = NoDebrisCall
    /\ caseInsensitive = FALSE /\ isnetwork = FALSE /\ ds = 0
    /\ nodes = << >> /\ fsidnode = << >> /\ insertq = {} /\ deleteq = {}
    /\ fs = << >> /\ cloud = << >> /\ notifyq = << >> /\ quietTime = 0
    /\ stack = << >> /\ pc = "idle" /\ envLeft = 0
    /\ pass = [prevDone |-> FALSE, second |-> FALSE, effects |-> FALSE]

InitScore ==
    /\ SyncAtRest
    /\ \E a, b \in BytePaths(MaxPathLen) : ev = [op |-> "paths", a |-> a, b |-> b]

\* The score of the two paths is computed, in both argument orders.
ScoreStep ==
    /\ ev.op = "paths"
    /\ ev' = [op |-> "score", a |-> ev.a, b |-> ev.b,
              ab |-> computeReversePathMatchScore(ev.a, ev.b),
              ba |-> computeReversePathMatchScore(ev.b, ev.a)]
    /\ UNCHANGED <<mSyncConfigs, mTable, state, errorCode, fullscan, statecachetable, debris>>
    /\ UNCHANGED <<caseInsensitive, isnetwork, ds, nodes, fsidnode, insertq,
                   deleteq, fs, cloud, notifyq, quietTime, stack, pc, envLeft, pass>>

NextScore == ScoreStep

SpecScore == InitScore /\ [][NextScore]_vars

----------------------------------------------------------------------------
\* Filesystem-id assignment after a restart: assignFilesystemIds.

MaxEntries == 3
MaxFaults == 1

\* localroot->localname, an absolute path.
RootLocalName == <<Sep, "r">>

\* The entries a cached tree or a live filesystem may hold below the root,
\* in the order that numbers them.
AssignPathSeq == <<<<"A">>, <<"x">>, <<"z">>, <<"A", "x">>, <<"A", "z">>>>
AssignPaths == {AssignPathSeq[i] : i \in DOMAIN AssignPathSeq}
AssignFolders == {<<"A">>}
PathIndex(path) == CHOOSE i \in DOMAIN AssignPathSeq : AssignPathSeq[i] = path

\* The filesystem id of the entry at a path: one id per entry.
AssignFsid(path) == IF path = << >> THEN 9 ELSE PathIndex(path)

FpSizes == {10, 20}
FpMtimes == {1000}

\* LightFileFingerprint values.  A hash is kept as the tally of the values
\* combined into it, each of size and mtime on its own: hashCombine is taken
\* to be commutative and free of collisions.
ZeroTally(D) == [v \in D |-> 0]
DefaultFingerprint ==
    [combined |-> TRUE, size |-> ZeroTally(FpSizes), mtime |-> ZeroTally(FpMtimes)]
genfingerprint(size, mtime) ==
    [combined |-> FALSE,
     size |-> [v \in FpSizes |-> IF v = size THEN 1 ELSE 0],
     mtime |-> [v \in FpMtimes |-> IF v = mtime THEN 1 ELSE 0]]
hashCombine(seed, v) == [x \in DOMAIN seed |-> seed[x] + v[x]]
hashCombineFingerprint(ffp, other) ==
    [combined |-> TRUE,
     size |-> hashCombine(ffp.size, other.size),
     mtime |-> hashCombine(ffp.mtime, other.mtime)]

\* The loop of either combinedFingerprint over the fingerprints of the files
\* found, given as a function from the files to their fingerprints.
RECURSIVE CombineFingerprints(_, _)
CombineFingerprints(ffp, fps) ==
    IF DOMAIN fps = {} THEN ffp
    ELSE LET k == CHOOSE x \in DOMAIN fps : TRUE
         IN  CombineFingerprints(hashCombineFingerprint(ffp, fps[k]),
                                 [x \in DOMAIN fps \ {k} |-> fps[x]])

\* combinedFingerprint(ffp, nodeMap) and computeFingerprint(ffp, l).
computeFingerprintOfNode(ns, l) ==
    IF ns[l].type = FILENODE
    THEN [ok |-> TRUE, ffp |-> genfingerprint(ns[l].size, ns[l].mtime)]
    ELSE LET files == {c \in Children(ns, l) : ns[c].type = FILENODE}
         IN  [ok |-> files # {},
              ffp |-> CombineFingerprints(DefaultFingerprint,
                         [c \in files |-> genfingerprint(ns[c].size, ns[c].mtime)])]

\* LocalNode::getLocalPath.
RECURSIVE getLocalPath(_, _)
getLocalPath(ns, l) ==
    IF ns[l].parent = NullNode THEN RootLocalName
    ELSE getLocalPath(ns, ns[l].parent) \o <<Sep, ns[l].name>>

\* The local path of a filesystem entry, given relative to the sync root.
RECURSIVE FsLocalPath(_)
FsLocalPath(path) ==
    IF path = << >> THEN RootLocalName
    ELSE FsLocalPath(SubSeq(path, 1, Len(path) - 1)) \o <<Sep, path[Len(path)]>>

\* A collection that resets the fsids and leaves the index as it was.
CollectKeepingIndex(ns, idx) ==
    [ns |-> [l \in DOMAIN ns |-> [ns[l] EXCEPT !.fsid = UNDEF]],
     idx |-> idx,
     localnodes |-> {[ffp |-> computeFingerprintOfNode(ns, l).ffp, l |-> l] :
                        l \in {n \in DOMAIN ns : computeFingerprintOfNode(ns, n).ok}}]

\* collectAllLocalNodes: every node of the tree loses its fsid and its index
\* entry; the nodes that have a fingerprint are collected under it.
collectAllLocalNodes(ns, idx) ==
    [ns |-> [l \in DOMAIN ns |-> [ns[l] EXCEPT !.fsid = UNDEF]],
     idx |-> [f \in {g \in DOMAIN idx : ~(idx[g] \in DOMAIN ns /\ ns[idx[g]].fsid = g)}
                |-> idx[f]],
     localnodes |-> {[ffp |-> computeFingerprintOfNode(ns, l).ffp, l |-> l] :
                        l \in {n \in DOMAIN ns : computeFingerprintOfNode(ns, n).ok}}]

\* The entries of the filesystem directly inside the folder at path.
FsChildren(f, path) ==
    {q \in DOMAIN f : Len(q) = Len(path) + 1 /\ SubSeq(q, 1, Len(path)) = path}

collectAllPathsInFolder(f, path) ==
    IF f[path].access \in {"locked", "symlink"} THEN {} ELSE FsChildren(f, path)

\* combinedFingerprint(ffp, fsaccess, paths).
combinedFingerprintOfPaths(f, paths) ==
    LET files == {q \in paths : f[q].access # "symlink" /\ f[q].type = FILENODE}
    IN  [ok |-> files # {} /\ \A q \in paths : f[q].access # "locked",
         ffp |-> CombineFingerprints(DefaultFingerprint,
                    [q \in files |-> genfingerprint(f[q].size, f[q].mtime)])]

\* collectAllFiles: [success, files], files being the FsFile entries found,
\* each with its fingerprint.
RECURSIVE collectAllFiles(_, _)
collectAllFiles(f, path) ==
    IF f[path].access = "locked" THEN [success |-> FALSE, files |-> {}]
    ELSE IF f[path].access = "symlink" THEN [success |-> TRUE, files |-> {}]
    ELSE IF f[path].access = "nofsid" THEN [success |-> FALSE, files |-> {}]
    ELSE IF f[path].type = FILENODE
    THEN [success |-> TRUE,
          files |-> {[ffp |-> genfingerprint(f[path].size, f[path].mtime),
                      fsid |-> f[path].fsid, path |-> path]}]
    ELSE LET paths == collectAllPathsInFolder(f, path)
             own == combinedFingerprintOfPaths(f, paths)
             below == {collectAllFiles(f, q) : q \in paths}
         IN  [success |-> \A b \in below : b.success,
              files |-> (IF own.ok
                         THEN {[ffp |-> own.ffp, fsid |-> f[path].fsid, path |-> path]}
                         ELSE {})
                        \cup UNION {b.files : b \in below}]

\* The elements of one fingerprint: the pairs of a node other than the root
\* and a file whose paths score above 0.
Elements(ns, localnodes, files, ffp) ==
    {[score |-> computeReversePathMatchScore(getLocalPath(ns, n.l),
                                             FsLocalPath(file.path)),
      fsid |-> file.fsid, l |-> n.l] :
        n \in {x \in localnodes : x.ffp = ffp /\ x.l # RootNode},
        file \in {x \in files : x.ffp = ffp}}

\* An assignment loop that binds a node whether or not it is bound already.
RECURSIVE AssignRegardless(_, _, _)
AssignRegardless(st, elements, usedFsIds) ==
    IF elements = {} THEN {st}
    ELSE LET first == {e \in elements : \A d \in elements : d.score <= e.score}
         IN  UNION {AssignRegardless(
                      [ns |-> [st.ns EXCEPT ![e.l].fsid = e.fsid],
                       idx |-> setfsidIndex(st.idx, st.ns, e.l, e.fsid),
                       assignmentCount |-> st.assignmentCount + 1],
                      elements \ {e}, usedFsIds \cup {e.fsid}) : e \in first}

\* An assignment loop over elements that were not sorted: the next element
\* to act is any that can still be assigned.
RECURSIVE AssignUnsorted(_, _, _)
AssignUnsorted(st, elements, usedFsIds) ==
    LET open == {e \in elements : /\ st.ns[e.l].fsid = UNDEF
                                   /\ e.fsid \notin usedFsIds}
    IN  IF open = {} THEN {st}
        ELSE UNION {AssignUnsorted(
                      [ns |-> [st.ns EXCEPT ![e.l].fsid = e.fsid],
                       idx |-> setfsidIndex(st.idx, st.ns, e.l, e.fsid),
                       assignmentCount |-> st.assignmentCount + 1],
                      open \ {e}, usedFsIds \cup {e.fsid}) : e \in open}

\* The sort and the assignment loop for one fingerprint, on
\* [ns, idx, assignmentCount]: the set of results.  std::sort is not stable, so elements of equal score come
\* in any order; an element that is skipped once is skipped for good, so the
\* next one to act is any of the best that can still be assigned.
RECURSIVE AssignSorted(_, _, _)
AssignSorted(st, elements, usedFsIds) ==
    LET open == {e \in elements : /\ st.ns[e.l].fsid = UNDEF
                                   /\ e.fsid \notin usedFsIds}
        first == {e \in open : \A d \in open : d.score <= e.score}
    IN  IF open = {} THEN {st}
        ELSE UNION {AssignSorted(
                      [ns |-> [st.ns EXCEPT ![e.l].fsid = e.fsid],
                       idx |-> setfsidIndex(st.idx, st.ns, e.l, e.fsid),
                       assignmentCount |-> st.assignmentCount + 1],
                      open \ {e}, usedFsIds \cup {e.fsid}) : e \in first}

\* Elements that are kept whatever their score.
KeepAllScores(elements) == elements

\* "if (score > 0)": the leaf name must match.
PositiveScores(elements) == {e \in elements : e.score > 0}

\* assignFilesystemIdsImpl: the results of going through the fingerprints.
RECURSIVE assignFilesystemIdsImpl(_, _, _, _)
assignFilesystemIdsImpl(st, fingerprints, localnodes, files) ==
    IF fingerprints = {} THEN {st}
    ELSE LET ffp == CHOOSE x \in fingerprints : TRUE
             elements == PositiveScores(Elements(st.ns, localnodes, files, ffp))
         IN  UNION {assignFilesystemIdsImpl(after, fingerprints \ {ffp},
                                            localnodes, files) :
                      after \in AssignSorted(st, elements, {})}

\* assignFilesystemIds once the root has been found to be a folder that
\* opens and is no symlink: the set of results [ret, past, ns, idx,
\* assignmentCount].
AssignBelowRoot(ns, idx, f) ==
    LET cleared == collectAllLocalNodes(ns, idx)
        found == collectAllFiles(f, << >>)
        st == [ns |-> cleared.ns, idx |-> cleared.idx, assignmentCount |-> 0]
    IN  IF cleared.localnodes = {}
        THEN {[ret |-> TRUE, past |-> TRUE, ns |-> st.ns, idx |-> st.idx,
               assignmentCount |-> 0]}
        ELSE {[ret |-> found.success, past |-> TRUE, ns |-> r.ns, idx |-> r.idx,
               assignmentCount |-> r.assignmentCount] :
                r \in assignFilesystemIdsImpl(st,
                         {n.ffp : n \in cleared.localnodes}
                           \cup {file.ffp : file \in found.files},
                         cleared.localnodes, found.files)}

\* An assignment that does not look at the root first.
AssignUnchecked(ns, idx, f) == AssignBelowRoot(ns, idx, f)

\* assignFilesystemIds: past tells whether the root checks were passed.
assignFilesystemIds(ns, idx, f) ==
    IF \/ f[<< >>].access = "locked"
       \/ f[<< >>].type # FOLDERNODE
       \/ f[<< >>].access = "symlink"
    THEN {[ret |-> FALSE, past |-> FALSE, ns |-> ns, idx |-> idx,
           assignmentCount |-> 0]}
    ELSE AssignBelowRoot(ns, idx, f)

\* The trees of at most MaxEntries entries: path -> [type, size, mtime], the
\* parent of every entry being a folder of the tree.
TreeConfigs ==
    LET kinds(path) ==
          IF path \in AssignFolders
          THEN {[type |-> FOLDERNODE, size |-> 0, mtime |-> 0]}
          ELSE {[type |-> FILENODE, size |-> s, mtime |-> m] :
                   s \in FpSizes, m \in FpMtimes}
    IN  UNION {{t \in [D -> UNION {kinds(q) : q \in D}] :
                   \A q \in D : t[q] \in kinds(q)} :
               D \in {S \in SUBSET AssignPaths :
                        /\ Cardinality(S) <= MaxEntries
                        /\ \A q \in S : Len(q) > 1 =>
                             SubSeq(q, 1, Len(q) - 1) \in S}}

\* The LocalNode tree readstatecache builds from a cached tree: the root is
\* node 1, the others follow in the order of AssignPathSeq; each carries the
\* fsid it had when it was cached.
CachedTree(t) ==
    LET order == [q \in DOMAIN t |->
                    1 + Cardinality({r \in DOMAIN t : PathIndex(r) <= PathIndex(q)})]
        at(l) == CHOOSE q \in DOMAIN t : order[q] = l
    IN  [l \in 1..(Cardinality(DOMAIN t) + 1) |->
           IF l = RootNode
           THEN [parent |-> NullNode, name |-> "", type |-> FOLDERNODE,
                 size |-> 0, mtime |-> 0, fsid |-> UNDEF, dbid |-> 0]
           ELSE [parent |-> IF Len(at(l)) = 1 THEN RootNode
                            ELSE order[SubSeq(at(l), 1, Len(at(l)) - 1)],
                 name |-> at(l)[Len(at(l))], type |-> t[at(l)].type,
                 size |-> t[at(l)].size, mtime |-> t[at(l)].mtime,
                 fsid |-> AssignFsid(at(l)), dbid |-> l]]

\* What can be wrong with a filesystem entry: it cannot be opened, it is a
\* symlink, or it has no valid fsid.
Faults == {"locked", "symlink", "nofsid"}

\* The live filesystem with tree t below a root of type rootType, the entries
\* of faulty having the fault it gives them.
LiveFs(t, rootType, faulty) ==
    [q \in DOMAIN t \cup {<< >>} |->
        [type |-> IF q = << >> THEN rootType ELSE t[q].type,
         size |-> IF q = << >> THEN 0 ELSE t[q].size,
         mtime |-> IF q = << >> THEN 0 ELSE t[q].mtime,
         fsid |-> AssignFsid(q),
         access |-> IF q \in DOMAIN faulty THEN faulty[q] ELSE "ok"]]

\* The live filesystems: a tree below a root that is a folder, or a root that
\* is a file, with at most MaxFaults faulty entries.
LiveConfigs ==
    UNION {{LiveFs(t, rootType, faulty) :
              faulty \in UNION {[D -> Faults] :
                           D \in {S \in SUBSET (DOMAIN t \cup {<< >>}) :
                                    Cardinality(S) <= MaxFaults}}} :
           <<t, rootType>> \in {c \in TreeConfigs \X NodeTypes :
                                  c[2] = FILENODE => DOMAIN c[1] = {}}}

InitAssign ==
    /\ caseInsensitive = FALSE /\ isnetwork = FALSE /\ ds = 0
    /\ mSyncConfigs = NoSyncConfigs /\ mTable = EmptyConfigTable
    /\ state = SYNC_INITIALSCAN /\ errorCode = NO_SYNC_ERROR /\ fullscan = TRUE
    /\ \E t \in TreeConfigs : nodes = CachedTree(t)
    /\ statecachetable = TableOf({nodes[l].dbid : l \in DOMAIN nodes} \ {0})
    /\ debris = NoDebrisCall
    /\ fsidnode = [g \in {nodes[l].fsid : l \in DOMAIN nodes \ {RootNode}} |->
                     CHOOSE l \in DOMAIN nodes : nodes[l].fsid = g]
    /\ insertq = {} /\ deleteq = {}
    /\ fs \in LiveConfigs
    /\ cloud = << >> /\ notifyq = << >> /\ quietTime = 0
    /\ stack = << >> /\ pc = "idle" /\ envLeft = 0
    /\ ev = [op |-> "restart"]
    /\ pass = [prevDone |-> FALSE, second |-> FALSE, effects |-> FALSE]

\* Sync::assignfsids.
assignfsids ==
    /\ ev.op = "restart"
    /\ \E r \in assignFilesystemIds(nodes, fsidnode, fs) :
         /\ nodes' = r.ns
         /\ fsidnode' = r.idx
         /\ ev' = [op |-> "assignfsids", ret |-> r.ret, past |-> r.past,
                   assignmentCount |-> r.assignmentCount,
                   pre |-> nodes, preIdx |-> fsidnode]
    /\ UNCHANGED <<mSyncConfigs, mTable, state, errorCode, fullscan, statecachetable, debris>>
    /\ UNCHANGED <<caseInsensitive, isnetwork, ds, insertq, deleteq, fs, cloud,
                   notifyq, quietTime, stack, pc, envLeft, pass>>

NextAssign == assignfsids

SpecAssign == InitAssign /\ [][NextAssign]_vars

----------------------------------------------------------------------------
\* The state cache: the queues, the table, and the state of the sync.

MaxCacheCalls == 4
INITIALSCAN_BATCH == 100

\* The id DbTable::put gives to the record of node l when it has none.
NewDbid(l) == l

\* statecachetable->put for node l, on [ns, q, table, log, added]: the record
\* gets a dbid if it has none; the row is stored unless the write fails.  w
\* tells which rows fail to be written and whether a record whose write failed
\* keeps the dbid it was given.
PutRow(st, l, w) ==
    LET failed == l \in w.failing
        dbid == IF st.ns[l].dbid # 0 THEN st.ns[l].dbid
                ELSE IF failed /\ ~w.keepsDbid THEN 0 ELSE NewDbid(l)
    IN  [ns |-> [st.ns EXCEPT ![l].dbid = dbid],
         q |-> st.q \ {l},
         table |-> [rows |-> IF failed THEN st.table.rows
                             ELSE st.table.rows \cup {dbid},
                    calls |-> st.table.calls + 1],
         log |-> Append(st.log, <<"put", l>>),
         added |-> TRUE]

\* A sweep that puts every queued node, wherever its parent stands.
RECURSIVE PutAnyOrder(_, _, _)
PutAnyOrder(st, todo, w) ==
    IF todo = << >> THEN st
    ELSE PutAnyOrder(PutRow(st, Head(todo), w), Tail(todo), w)

\* One "for" sweep over insertq, in the order of the set (by address).
RECURSIVE PutSweep(_, _, _)
PutSweep(st, todo, w) ==
    IF todo = << >> THEN st
    ELSE LET l == Head(todo)
         IN  IF st.ns[st.ns[l].parent].dbid # 0 \/ st.ns[l].parent = RootNode
             THEN PutSweep(PutRow(st, l, w), Tail(todo), w)
             ELSE PutSweep(st, Tail(todo), w)

\* The "do ... while (added)" loop of cachenodes.
RECURSIVE PutLoop(_, _)
PutLoop(st, w) ==
    LET swept == PutSweep([st EXCEPT !.added = FALSE], IntsInOrder(st.q), w)
    IN  IF swept.added THEN PutLoop(swept, w) ELSE swept

\* The deletions of cachenodes, in the order of deleteq.
RECURSIVE DelRows(_, _, _)
DelRows(st, todo, w) ==
    IF todo = << >> THEN st
    ELSE DelRows([st EXCEPT !.table.rows = IF Head(todo) \in w.failing THEN @
                                            ELSE @ \ {Head(todo)},
                            !.table.calls = @ + 1,
                            !.log = Append(@, <<"del", Head(todo)>>)],
                 Tail(todo), w)

\* Sync::cachenodes, on the tree, the two queues and the table; log lists the
\* calls made on the table.
cachenodes(ns, iq, dq, table, w) ==
    IF /\ table # NoTable
       /\ \/ state = SYNC_ACTIVE
          \/ state = SYNC_INITIALSCAN /\ Cardinality(iq) > INITIALSCAN_BATCH
       /\ dq # {} \/ iq # {}
    THEN LET begun == [ns |-> ns, q |-> iq,
                       table |-> [table EXCEPT !.calls = @ + 1],
                       log |-> <<<<"begin", 0>>>>, added |-> FALSE]
             put == PutLoop(DelRows(begun, IntsInOrder(dq), w), w)
         IN  [ns |-> put.ns, insertq |-> put.q, deleteq |-> {},
              table |-> [put.table EXCEPT !.calls = @ + 1],
              log |-> Append(put.log, <<"commit", 0>>)]
    ELSE [ns |-> ns, insertq |-> iq, deleteq |-> dq, table |-> table,
          log |-> << >>]

\* The writes that may fail: any rows, and a record whose write failed keeps
\* its new dbid or not.
WriteFaults == [failing : SUBSET {2, 3}, keepsDbid : BOOLEAN]

\* A sync with up to two nodes below the root, each in the root or in the
\* other; the nodes of cached came from the table, the others are new and
\* queued for insertion.
CacheTree(shape, cached) ==
    [l \in {RootNode} \cup shape.present |->
       [parent |-> IF l = RootNode THEN NullNode ELSE shape.parent[l],
        name |-> IF l = RootNode THEN "" ELSE IF l = 3 THEN "b" ELSE "a",
        type |-> FOLDERNODE,
        dbid |-> IF l \in cached THEN l ELSE 0]]

CacheShapes ==
    {sh \in [present : SUBSET {2, 3}, parent : [{2, 3} -> {RootNode, 2, 3}]] :
       /\ \A l \in {2, 3} : sh.parent[l] # l
       /\ \A l \in {2, 3} : l \notin sh.present => sh.parent[l] = RootNode
       /\ \A l \in sh.present : sh.parent[l] \in sh.present \cup {RootNode}
       /\ ~(sh.parent[2] = 3 /\ sh.parent[3] = 2)}

InitCache ==
    /\ mSyncConfigs = NoSyncConfigs /\ mTable = EmptyConfigTable
    /\ state = SYNC_INITIALSCAN /\ errorCode = NO_SYNC_ERROR /\ fullscan = TRUE
    /\ debris = NoDebrisCall
    /\ caseInsensitive = FALSE /\ isnetwork = FALSE /\ ds = 0
    /\ \E sh \in CacheShapes, cached \in SUBSET {2, 3}, opened \in BOOLEAN :
         /\ cached \subseteq sh.present
         /\ \A l \in cached : sh.parent[l] \in cached \cup {RootNode}
         /\ ~opened => cached = {}
         /\ nodes = CacheTree(sh, cached)
         /\ insertq = sh.present \ cached
         /\ statecachetable = IF opened THEN TableOf(cached) ELSE NoTable
    /\ deleteq = {} /\ fsidnode = << >>
    /\ fs = << >> /\ cloud = << >> /\ notifyq = << >> /\ quietTime = 0
    /\ stack = << >> /\ pc = "idle" /\ envLeft = MaxCacheCalls
    /\ ev = [op |-> "init"]
    /\ pass = [prevDone |-> FALSE, second |-> FALSE, effects |-> FALSE]

\* What a call on the state cache finds.
CacheCall(op, l, log, failing) ==
    [op |-> op, l |-> l, state |-> state, ns |-> nodes, insertq |-> insertq,
     deleteq |-> deleteq, table |-> statecachetable, log |-> log,
     failing |-> failing]

\* A node has changed: statecacheadd.
CacheAdd ==
    /\ envLeft > 0 /\ envLeft' = envLeft - 1
    /\ \E l \in DOMAIN nodes \ {RootNode} :
         /\ insertq' = statecacheadd(<<insertq, deleteq>>, nodes, l)[1]
         /\ deleteq' = statecacheadd(<<insertq, deleteq>>, nodes, l)[2]
         /\ ev' = CacheCall("statecacheadd", l, << >>, {})
    /\ UNCHANGED <<mSyncConfigs, mTable, state, errorCode, fullscan, statecachetable, debris, caseInsensitive, isnetwork, ds,
                   nodes, fsidnode, fs, cloud, notifyq, quietTime, stack, pc, pass>>

\* A subtree is destroyed: every node of it reports to statecachedel.
CacheDel ==
    /\ envLeft > 0 /\ envLeft' = envLeft - 1
    /\ \E l \in DOMAIN nodes \ {RootNode} :
         LET q == statecachedelAll(<<insertq, deleteq>>, nodes, Subtree(nodes, l))
         IN  /\ insertq' = q[1]
             /\ deleteq' = q[2]
             /\ nodes' = WithoutNodes(nodes, Subtree(nodes, l))
             /\ ev' = CacheCall("statecachedel", l, << >>, {})
    /\ UNCHANGED <<mSyncConfigs, mTable, state, errorCode, fullscan, statecachetable, debris, caseInsensitive, isnetwork, ds,
                   fsidnode, fs, cloud, notifyq, quietTime, stack, pc, pass>>

\* Sync::cachenodes is called.
CacheNodes ==
    /\ envLeft > 0 /\ envLeft' = envLeft - 1
    /\ \E w \in WriteFaults :
         LET r == cachenodes(nodes, insertq, deleteq, statecachetable, w)
         IN  /\ nodes' = r.ns
             /\ insertq' = r.insertq
             /\ deleteq' = r.deleteq
             /\ statecachetable' = r.table
             /\ ev' = CacheCall("cachenodes", NullNode, r.log, w.failing)
    /\ UNCHANGED <<mSyncConfigs, mTable, state, errorCode, fullscan, debris, caseInsensitive, isnetwork, ds, fsidnode, fs,
                   cloud, notifyq, quietTime, stack, pc, pass>>

\* Sync::changestate.  A canceled sync is on its way to ~Sync and is not
\* given another state.
changestate ==
    /\ state # SYNC_CANCELED
    /\ \E newstate \in SyncStates \ {state} :
         LET r == ChangeStateBody([state |-> state, errorCode |-> errorCode,
                                   fullscan |-> fullscan], newstate, errorCode)
         IN  /\ state' = r.state
             /\ errorCode' = r.errorCode
             /\ fullscan' = r.fullscan
             /\ ev' = CacheCall("changestate", NullNode, << >>, {})
    /\ UNCHANGED <<mSyncConfigs, mTable>>
    /\ UNCHANGED <<statecachetable, debris, caseInsensitive, isnetwork, ds, nodes,
                   fsidnode, insertq, deleteq, fs, cloud, notifyq, quietTime, stack,
                   pc, envLeft, pass>>

NextCache ==
    \/ CacheAdd
    \/ CacheDel
    \/ CacheNodes
    \/ changestate

SpecCache == InitCache /\ [][NextCache]_vars

\* statecachedel is called for a node that stays in the tree.
QueueDel ==
    /\ envLeft > 0 /\ envLeft' = envLeft - 1
    /\ \E l \in DOMAIN nodes \ {RootNode} :
         /\ insertq' = statecachedel(<<insertq, deleteq>>, nodes, l)[1]
         /\ deleteq' = statecachedel(<<insertq, deleteq>>, nodes, l)[2]
         /\ ev' = CacheCall("del", l, << >>, {})
    /\ UNCHANGED <<mSyncConfigs, mTable, state, errorCode, fullscan, statecachetable, debris, caseInsensitive, isnetwork, ds,
                   nodes, fsidnode, fs, cloud, notifyq, quietTime, stack, pc, pass>>

\* The calls on the two queues in any order, for nodes that stay as well as
\* for nodes that go.
NextQueue ==
    \/ CacheAdd
    \/ CacheDel
    \/ QueueDel
    \/ CacheNodes
    \/ changestate

SpecQueue == InitCache /\ [][NextQueue]_vars

----------------------------------------------------------------------------
\* Sync::localnodebypath on its own: a tree of three nodes with names and
\* short names, a start node or none, and a path.

\* Components of a looked-up path behind the start node or the root prefix.
MaxLookupLen == 2

\* The trees: node 2 lies in the root, node 3 in the root or in node 2.  As
\* on a filesystem, the names and short names inside one folder are distinct,
\* and a node has a short name only if it differs from its name.
PathTree(p3, n2, s2, n3, s3) ==
    [l \in 1..3 |->
        CASE l = 1 -> [parent |-> NullNode, name |-> "", sname |-> NoShortName]
          [] l = 2 -> [parent |-> RootNode, name |-> n2, sname |-> s2]
          [] l = 3 -> [parent |-> p3, name |-> n3, sname |-> s3]]

PathTrees ==
    {PathTree(p3, n2, s2, n3, s3) :
        <<p3, n2, s2, n3, s3>> \in
           {t \in {1, 2} \X Names \X (Names \cup {NoShortName})
                         \X Names \X (Names \cup {NoShortName}) :
               /\ t[2] # t[3] /\ t[4] # t[5]
               /\ t[1] = 1 => {t[2], t[3]} \cap {t[4], t[5]} = {}}}

\* Sequences over S of length at most n.
SeqsUpTo(S, n) == UNION {[1..k -> S] : k \in 0..n}

\* The calls: a start node and a path relative to it, or no start node and a
\* path that begins with the root prefix, with another folder, or is empty.
LookupCalls ==
    {[l |-> l, localpath |-> q] : l \in 1..3, q \in SeqsUpTo(Names, MaxLookupLen)}
    \cup {[l |-> NullNode, localpath |-> pre \o q] :
             pre \in {RootPrefix, <<"q">>, << >>},
             q \in SeqsUpTo(Names, MaxLookupLen)}

InitPath ==
    /\ mSyncConfigs = NoSyncConfigs /\ mTable = EmptyConfigTable
    /\ state = SYNC_INITIALSCAN /\ errorCode = NO_SYNC_ERROR /\ fullscan = TRUE
    /\ statecachetable = NoTable
    /\ debris = NoDebrisCall
    /\ caseInsensitive = FALSE /\ isnetwork = FALSE /\ ds = 0
    /\ nodes \in PathTrees
    /\ fsidnode = << >> /\ insertq = {} /\ deleteq = {}
    /\ fs = << >> /\ cloud = << >> /\ notifyq = << >> /\ quietTime = 0
    /\ stack = << >> /\ pc = "idle" /\ envLeft = 0
    /\ \E c \in LookupCalls : ev = [op |-> "call", l |-> c.l, localpath |-> c.localpath]
    /\ pass = [prevDone |-> FALSE, second |-> FALSE, effects |-> FALSE]

\* localnodebypath(l, localpath, &parent, &outpath), parent being NULL and
\* outpath empty before the call.
LookupCall ==
    /\ ev.op = "call"
    /\ ev' = [op |-> "localnodebypath", l |-> ev.l, localpath |-> ev.localpath,
              r |-> localnodebypathOrRoot(nodes, ev.l, ev.localpath, NullNode)]
    /\ UNCHANGED <<mSyncConfigs, mTable, state, errorCode, fullscan, statecachetable, debris>>
    /\ UNCHANGED <<caseInsensitive, isnetwork, ds, nodes, fsidnode, insertq,
                   deleteq, fs, cloud, notifyq, quietTime, stack, pc, envLeft, pass>>

NextPath == LookupCall

SpecPath == InitPath /\ [][NextPath]_vars

----------------------------------------------------------------------------
\* Sync::deletemissing on its own: a tree of four nodes, each with the scan
\* sequence number it was last seen at, the sync's scanseqno, and the node
\* the call is made on.

\* Sync::scanseqno is at most this.
MaxScanSeq == 3

\* A deletemissing that looks at the children of l and not below them.
DeleteMissingChildren(ns, l, scanseqno) ==
    LET gone == {c \in Children(ns, l) : scanseqno - ns[c].scanseqno > 1}
    IN  [ns |-> WithoutNodes(ns, UNION {Subtree(ns, c) : c \in gone}),
         unlinked |-> gone]

\* The loop of deletemissing over the children todo of one node, on
\* [ns, unlinked]: a child missing for two scans is unlinked and deleted
\* (its destructor deletes what is below it), any other child is gone through
\* in turn.  deletemissing(l) is the loop over the children of l.
RECURSIVE DeleteMissingLoop(_, _, _)
DeleteMissingLoop(st, todo, scanseqno) ==
    IF todo = << >> THEN st
    ELSE LET c == Head(todo)
             after ==
               IF scanseqno - st.ns[c].scanseqno > 1
               THEN [ns |-> WithoutNodes(st.ns, Subtree(st.ns, c)),
                     unlinked |-> st.unlinked \cup {c}]
               ELSE DeleteMissingLoop(st, ChildrenInMapOrder(st.ns, c), scanseqno)
         IN  DeleteMissingLoop(after, Tail(todo), scanseqno)

deletemissing(ns, l, scanseqno) ==
    DeleteMissingLoop([ns |-> ns, unlinked |-> {}], ChildrenInMapOrder(ns, l),
                      scanseqno)

\* The trees: node 2 lies in the root, node 3 in the root or in node 2,
\* node 4 in any of them; seqno gives each node its scanseqno.
MissingTree(p3, p4, seqno) ==
    [l \in 1..4 |->
        [parent |-> CASE l = 1 -> NullNode [] l = 2 -> RootNode
                      [] l = 3 -> p3 [] l = 4 -> p4,
         name |-> CASE l = 1 -> "" [] l = 2 -> "a" [] l = 3 -> "b" [] l = 4 -> "B",
         scanseqno |-> seqno[l]]]

InitMissing ==
    /\ mSyncConfigs = NoSyncConfigs /\ mTable = EmptyConfigTable
    /\ state = SYNC_INITIALSCAN /\ errorCode = NO_SYNC_ERROR /\ fullscan = TRUE
    /\ statecachetable = NoTable
    /\ debris = NoDebrisCall
    /\ caseInsensitive = FALSE /\ isnetwork = FALSE /\ ds = 0
    /\ \E scanseqno \in 0..MaxScanSeq, p3 \in {1, 2}, p4 \in {1, 2, 3} :
         \E seqno \in [1..4 -> 0..scanseqno], l \in 1..4 :
            /\ nodes = MissingTree(p3, p4, seqno)
            /\ ev = [op |-> "call", l |-> l, scanseqno |-> scanseqno]
    /\ fsidnode = << >> /\ insertq = {} /\ deleteq = {}
    /\ fs = << >> /\ cloud = << >> /\ notifyq = << >> /\ quietTime = 0
    /\ stack = << >> /\ pc = "idle" /\ envLeft = 0
    /\ pass = [prevDone |-> FALSE, second |-> FALSE, effects |-> FALSE]

\* deletemissing(l).
DeleteMissingCall ==
    /\ ev.op = "call"
    /\ LET r == deletemissing(nodes, ev.l, ev.scanseqno)
       IN  /\ nodes' = r.ns
           /\ ev' = [op |-> "deletemissing", l |-> ev.l, scanseqno |-> ev.scanseqno,
                     pre |-> nodes, unlinked |-> r.unlinked]
    /\ UNCHANGED <<mSyncConfigs, mTable, state, errorCode, fullscan, statecachetable, debris>>
    /\ UNCHANGED <<caseInsensitive, isnetwork, ds, fsidnode, insertq, deleteq, fs,
                   cloud, notifyq, quietTime, stack, pc, envLeft, pass>>

NextMissing == DeleteMissingCall

SpecMissing == InitMissing /\ [][NextMissing]_vars

----------------------------------------------------------------------------
\* A SyncConfigBag on its own, backed by a table: built over the rows a
\* table may hold, then insert, removeByTag and clear in any order, with
\* writes that succeed or fail.

\* The table holds rows with ids up to this when the bag is built.
MaxRowId == 2

\* A new config is inserted while nextid is below this.
MaxNextId == 4

ConfigTags == {1, 2}
ConfigData == {"x", "y"}

\* The tables the constructor may find: any rows with distinct ids; two rows
\* may carry the same tag, and a row may fail to unserialize.
ConfigTables ==
    UNION {[ids -> [tag : ConfigTags, data : {"x"}, good : BOOLEAN]] :
              ids \in SUBSET (0..MaxRowId)}

\* The state after the constructor returned.
InitBag ==
    /\ \E rows \in ConfigTables :
         /\ mSyncConfigs = SyncConfigBag(rows).map
         /\ mTable = SyncConfigBag(rows).table
    /\ state = SYNC_INITIALSCAN /\ errorCode = NO_SYNC_ERROR /\ fullscan = TRUE
    /\ statecachetable = NoTable
    /\ debris = NoDebrisCall
    /\ caseInsensitive = FALSE /\ isnetwork = FALSE /\ ds = 0
    /\ nodes = << >> /\ fsidnode = << >> /\ insertq = {} /\ deleteq = {}
    /\ fs = << >> /\ cloud = << >> /\ notifyq = << >> /\ quietTime = 0
    /\ stack = << >> /\ pc = "idle" /\ envLeft = 0
    /\ ev = [op |-> "init"]
    /\ pass = [prevDone |-> FALSE, second |-> FALSE, effects |-> FALSE]

BagUnchanged ==
    UNCHANGED <<state, errorCode, fullscan, statecachetable, debris, caseInsensitive,
                isnetwork, ds, nodes, fsidnode, insertq, deleteq, fs, cloud, notifyq,
                quietTime, stack, envLeft, pass>>

\* SyncConfigBag::insert.  A put that fails runs into assert(false): the
\* program aborts there or, built without asserts, goes on.
Insert ==
    /\ pc = "idle"
    /\ \E tag \in ConfigTags, data \in ConfigData, putOk \in BOOLEAN :
         \E aborts \in IF putOk THEN {FALSE} ELSE BOOLEAN :
            LET r == insert([map |-> mSyncConfigs, table |-> mTable],
                            [tag |-> tag, data |-> data], putOk)
            IN  /\ tag \notin DOMAIN mSyncConfigs => mTable.nextid < MaxNextId
                /\ mSyncConfigs' = r.map
                /\ mTable' = r.table
                /\ pc' = IF aborts THEN "crashed" ELSE "idle"
                /\ ev' = [op |-> "insert", tag |-> tag, ok |-> putOk,
                          map |-> mSyncConfigs, table |-> mTable]
    /\ BagUnchanged

\* SyncConfigBag::removeByTag.  A del that fails runs into assert(false).
RemoveByTag ==
    /\ pc = "idle"
    /\ \E tag \in ConfigTags, delOk \in BOOLEAN :
         \E aborts \in IF delOk \/ tag \notin DOMAIN mSyncConfigs
                        THEN {FALSE} ELSE BOOLEAN :
            LET r == removeByTag([map |-> mSyncConfigs, table |-> mTable], tag, delOk)
            IN  /\ mSyncConfigs' = IF aborts THEN mSyncConfigs ELSE r.map
                /\ mTable' = IF aborts THEN mTable ELSE r.table
                /\ pc' = IF aborts THEN "crashed" ELSE "idle"
                /\ ev' = [op |-> "removeByTag", tag |-> tag, ok |-> delOk,
                          map |-> mSyncConfigs, table |-> mTable]
    /\ BagUnchanged

\* SyncConfigBag::clear
Clear ==
    /\ pc = "idle"
    /\ mSyncConfigs' = clear([map |-> mSyncConfigs, table |-> mTable]).map
    /\ mTable' = clear([map |-> mSyncConfigs, table |-> mTable]).table
    /\ ev' = [op |-> "clear", tag |-> 0, ok |-> TRUE,
              map |-> mSyncConfigs, table |-> mTable]
    /\ UNCHANGED pc
    /\ BagUnchanged

NextBag ==
    \/ Insert
    \/ RemoveByTag
    \/ Clear

SpecBag == InitBag /\ [][NextBag]_vars

----------------------------------------------------------------------------
\* The state of the sync and its reports to the client: Sync::changestate
\* called with any state and any error, between calls of readstatecache.

\* A sync after Sync::Sync with a state cache table that holds no node.
InitState ==
    /\ mSyncConfigs = NoSyncConfigs /\ mTable = EmptyConfigTable
    /\ state = SYNC_INITIALSCAN /\ errorCode = NO_SYNC_ERROR /\ fullscan = TRUE
    /\ statecachetable = TableOf({})
    /\ debris = NoDebrisCall
    /\ caseInsensitive = FALSE /\ isnetwork = FALSE /\ ds = 0
    /\ nodes = << >> /\ fsidnode = << >> /\ insertq = {} /\ deleteq = {}
    /\ fs = << >> /\ cloud = << >> /\ notifyq = << >> /\ quietTime = 0
    /\ stack = << >> /\ pc = "idle" /\ envLeft = 0
    /\ ev = [op |-> "init"]
    /\ pass = [prevDone |-> FALSE, second |-> FALSE, effects |-> FALSE]

\* Sync::changestate(newstate, newSyncError).
ChangeStateCall ==
    /\ \E newstate \in SyncStates, newSyncError \in SyncErrors :
         LET sync == [state |-> state, errorCode |-> errorCode,
                      fullscan |-> fullscan]
             r == ChangeStateBody(sync, newstate, newSyncError)
         IN  /\ state' = r.state
             /\ errorCode' = r.errorCode
             /\ fullscan' = r.fullscan
             /\ ev' = [op |-> "changestate", newstate |-> newstate,
                       newSyncError |-> newSyncError, pre |-> sync,
                       calls |-> r.calls]
    /\ UNCHANGED <<mSyncConfigs, mTable>>
    /\ UNCHANGED <<statecachetable, debris, caseInsensitive, isnetwork, ds, nodes,
                   fsidnode, insertq, deleteq, fs, cloud, notifyq, quietTime, stack,
                   pc, envLeft, pass>>

\* Sync::readstatecache on the empty table: a full scan is due again.
ReadStateCache ==
    /\ statecachetable # NoTable
    /\ state = SYNC_INITIALSCAN
    /\ fullscan' = TRUE
    /\ ev' = [op |-> "readstatecache"]
    /\ UNCHANGED <<mSyncConfigs, mTable>>
    /\ UNCHANGED <<state, errorCode, statecachetable, debris, caseInsensitive,
                   isnetwork, ds, nodes, fsidnode, insertq, deleteq, fs, cloud,
                   notifyq, quietTime, stack, pc, envLeft, pass>>

NextState ==
    \/ ChangeStateCall
    \/ ReadStateCache

SpecState == InitState /\ [][NextState]_vars

-----------------------------------------------------------------------------
\* Sync::movetolocaldebris.  The loop runs i from DebrisFirst up to, not
\* including, DebrisTries; each iteration makes one renamelocal call.  The
\* filesystem answers each call: mkdirlocal of the daily folder makes it, finds
\* it there (target_exists) or fails; renamelocal succeeds, fails with
\* transient_error, fails with target_exists, or fails otherwise.  The
\* mkdirlocal of the debris folder itself (i == -2 or i > 95) has no part in
\* the control flow: the target_exists it leaves is overwritten by the
\* mkdirlocal of the daily folder that follows it.
DebrisFirst == -3
DebrisTries == 100

MkdirOutcomes == {"made", "exists", "failed"}
RenameOutcomes == {"ok", "transient", "exists", "other"}

\* havedir after the mkdirlocal of iteration i.
HaveDir(i, havedir, mk) ==
    IF i > DebrisFirst THEN mk \in {"made", "exists"} ELSE havedir

\* The loop goes on after a transient error.
RetryTransient(i, havedir, rn) ==
    IF rn = "ok" THEN "true"
    ELSE IF havedir /\ rn # "exists" /\ rn # "transient" THEN "false"
    ELSE IF i + 1 < DebrisTries THEN "running"
    ELSE "false"

\* What follows the renamelocal of iteration i: return true, return false, or
\* the next iteration.
AfterRename(i, havedir, rn) ==
    IF rn = "ok" THEN "true"
    ELSE IF rn = "transient" THEN "false"
    ELSE IF havedir /\ rn # "exists" THEN "false"
    ELSE IF i + 1 < DebrisTries THEN "running"
    ELSE "false"

InitDebris ==
    /\ mSyncConfigs = NoSyncConfigs /\ mTable = EmptyConfigTable
    /\ state = SYNC_ACTIVE /\ errorCode = NO_SYNC_ERROR /\ fullscan = FALSE /\ statecachetable = NoTable
    /\ debris = [i |-> DebrisFirst, havedir |-> FALSE, ret |-> "running"]
    /\ caseInsensitive = FALSE /\ isnetwork = FALSE /\ ds = 0
    /\ nodes = << >> /\ fsidnode = << >> /\ insertq = {} /\ deleteq = {}
    /\ fs = << >> /\ cloud = << >> /\ notifyq = << >> /\ quietTime = 0
    /\ stack = << >> /\ pc = "idle" /\ envLeft = 0
    /\ ev = [op |-> "movetolocaldebris", renames |-> 0, suffixed |-> 0,
             succeeded |-> 0]
    /\ pass = [prevDone |-> FALSE, second |-> FALSE, effects |-> FALSE]

\* One iteration of the loop of movetolocaldebris.
DebrisAttempt ==
    /\ debris.ret = "running"
    /\ \E mk \in MkdirOutcomes, rn \in RenameOutcomes :
         LET havedir == HaveDir(debris.i, debris.havedir, mk)
             ret == AfterRename(debris.i, havedir, rn)
         IN  /\ debris' = [i |-> IF ret = "running" THEN debris.i + 1 ELSE debris.i,
                           havedir |-> havedir, ret |-> ret]
             /\ ev' = [op |-> "renamelocal", i |-> debris.i, havedir |-> havedir,
                       rn |-> rn,
                       renames |-> ev.renames + 1,
                       suffixed |-> ev.suffixed + IF debris.i >= 0 THEN 1 ELSE 0,
                       succeeded |-> ev.succeeded + IF rn = "ok" THEN 1 ELSE 0]
    /\ UNCHANGED <<mSyncConfigs, mTable, state, errorCode, fullscan, statecachetable>>
    /\ UNCHANGED <<caseInsensitive, isnetwork, ds, nodes, fsidnode, insertq,
                   deleteq, fs, cloud, notifyq, quietTime, stack, pc, envLeft, pass>>

NextDebris == DebrisAttempt

SpecDebris == InitDebris /\ [][NextDebris]_vars

-----------------------------------------------------------------------------
\* The commands of the gfx worker and their trip through CommandSerializer,
\* read back through the StringReader of commands_test.cpp.  Strings and the
\* wire are sequences of bytes.  The wire format is: the command's type and
\* the length of its payload, each in four bytes, then the payload; in the
\* payload a number takes four bytes, a string or a list its length and then
\* its bytes or members.
MaxTextLen == 2
MaxListLen == 1
TextBytes == {0, 47}
Widths == {0, 250}
ErrorCodes == {0, -1}

Texts == UNION {[1..n -> TextBytes] : n \in 0..MaxTextLen}
Dimensions == [w : Widths, h : Widths]
ListsOf(S) == UNION {[1..n -> S] : n \in 0..MaxListLen}

CommandTypes ==
    <<"NewGfx", "NewGfxResponse", "ShutDown", "ShutDownResponse", "Hello",
      "HelloResponse", "SupportFormats", "SupportFormatsResponse">>

TypeTag(type) == CHOOSE k \in 1..Len(CommandTypes) : CommandTypes[k] = type

GfxCommands ==
    [type : {"NewGfx"}, Path : Texts, Dimensions : ListsOf(Dimensions)]
    \cup [type : {"NewGfxResponse"}, ErrorCode : ErrorCodes, ErrorText : Texts,
          Images : ListsOf(Texts)]
    \cup [type : {"ShutDown", "ShutDownResponse", "SupportFormats"}]
    \cup [type : {"Hello", "HelloResponse"}, Text : Texts]
    \cup [type : {"SupportFormatsResponse"}, formats : Texts, videoformats : Texts]

\* A 32-bit number in four bytes, lowest first, and back.  The numbers are
\* kept as their two's complement value: an unsigned number with the top bit
\* set reads as a negative one.
PutU32(n) ==
    <<n % 256, (n \div 256) % 256, (n \div 65536) % 256, (n \div 16777216) % 256>>

GetU32(b) ==
    b[1] + 256 * b[2] + 65536 * b[3]
    + 16777216 * (IF b[4] >= 128 THEN b[4] - 256 ELSE b[4])

PutText(t) == PutU32(Len(t)) \o t

PutDimension(d) == PutU32(d.w) \o PutU32(d.h)

RECURSIVE PutTexts(_)
PutTexts(l) == IF l = << >> THEN << >> ELSE PutText(Head(l)) \o PutTexts(Tail(l))

RECURSIVE PutDimensions(_)
PutDimensions(l) ==
    IF l = << >> THEN << >> ELSE PutDimension(Head(l)) \o PutDimensions(Tail(l))

Payload(c) ==
    CASE c.type = "NewGfx" ->
           PutText(c.Path) \o PutU32(Len(c.Dimensions)) \o PutDimensions(c.Dimensions)
      [] c.type = "NewGfxResponse" ->
           PutU32(c.ErrorCode) \o PutText(c.ErrorText)
             \o PutU32(Len(c.Images)) \o PutTexts(c.Images)
      [] c.type \in {"Hello", "HelloResponse"} -> PutText(c.Text)
      [] c.type = "SupportFormatsResponse" ->
           PutText(c.formats) \o PutText(c.videoformats)
      [] OTHER -> << >>

\* CommandSerializer::serialize
serialize(c) == PutU32(TypeTag(c.type)) \o PutU32(Len(Payload(c))) \o Payload(c)

\* A reader whose last byte cannot be read.
ReadShortOfEnd(rd, n) ==
    IF rd.mIndex + n >= Len(rd.mValue)
    THEN [ok |-> FALSE, out |-> << >>, rd |-> rd]
    ELSE [ok |-> TRUE, out |-> SubSeq(rd.mValue, rd.mIndex + 1, rd.mIndex + n),
          rd |-> [rd EXCEPT !.mIndex = @ + n]]

\* StringReader::do_read on the reader [mValue, mIndex]: n bytes from mIndex
\* on, or failure when fewer are left.
do_read(rd, n) ==
    IF rd.mIndex > Len(rd.mValue) THEN [ok |-> FALSE, out |-> << >>, rd |-> rd]
    ELSE IF rd.mIndex + n > Len(rd.mValue) THEN [ok |-> FALSE, out |-> << >>, rd |-> rd]
    ELSE [ok |-> TRUE, out |-> SubSeq(rd.mValue, rd.mIndex + 1, rd.mIndex + n),
          rd |-> [rd EXCEPT !.mIndex = @ + n]]

\* Reading a number, a string, a dimension and lists of them: each gives
\* [ok, val, rd].
Failed(rd) == [ok |-> FALSE, val |-> << >>, rd |-> rd]

ReadU32(rd) ==
    LET r == do_read(rd, 4)
    IN  IF r.ok THEN [ok |-> TRUE, val |-> GetU32(r.out), rd |-> r.rd] ELSE Failed(rd)

ReadText(rd) ==
    LET n == ReadU32(rd)
        r == do_read(n.rd, n.val)
    IN  IF n.ok /\ n.val >= 0 /\ r.ok
        THEN [ok |-> TRUE, val |-> r.out, rd |-> r.rd]
        ELSE Failed(rd)

ReadDimension(rd) ==
    LET w == ReadU32(rd)
        h == ReadU32(w.rd)
    IN  IF w.ok /\ h.ok
        THEN [ok |-> TRUE, val |-> [w |-> w.val, h |-> h.val], rd |-> h.rd]
        ELSE Failed(rd)

RECURSIVE ReadTexts(_, _)
ReadTexts(rd, n) ==
    IF n = 0 THEN [ok |-> TRUE, val |-> << >>, rd |-> rd]
    ELSE LET t == ReadText(rd)
             rest == ReadTexts(t.rd, n - 1)
         IN  IF t.ok /\ rest.ok
             THEN [ok |-> TRUE, val |-> <<t.val>> \o rest.val, rd |-> rest.rd]
             ELSE Failed(rd)

RECURSIVE ReadDimensions(_, _)
ReadDimensions(rd, n) ==
    IF n = 0 THEN [ok |-> TRUE, val |-> << >>, rd |-> rd]
    ELSE LET d == ReadDimension(rd)
             rest == ReadDimensions(d.rd, n - 1)
         IN  IF d.ok /\ rest.ok
             THEN [ok |-> TRUE, val |-> <<d.val>> \o rest.val, rd |-> rest.rd]
             ELSE Failed(rd)

\* The command of the given type out of its payload; the whole payload must
\* be used up.
FromPayload(type, payload) ==
    LET rd == [mValue |-> payload, mIndex |-> 0]
        whole(r, c) == IF r.ok /\ r.rd.mIndex = Len(payload)
                       THEN [ok |-> TRUE, command |-> c]
                       ELSE [ok |-> FALSE, command |-> [type |-> "none"]]
    IN  CASE type = "NewGfx" ->
               LET path == ReadText(rd)
                   n == ReadU32(path.rd)
                   dims == IF path.ok /\ n.ok /\ n.val >= 0
                           THEN ReadDimensions(n.rd, n.val)
                           ELSE Failed(rd)
               IN  whole(dims, [type |-> type, Path |-> path.val, Dimensions |-> dims.val])
          [] type = "NewGfxResponse" ->
               LET code == do_read(rd, 4)
                   text == ReadText(code.rd)
                   n == ReadU32(text.rd)
                   images == IF code.ok /\ text.ok /\ n.ok /\ n.val >= 0
                             THEN ReadTexts(n.rd, n.val)
                             ELSE Failed(rd)
               IN  whole(images, [type |-> type,
                                  ErrorCode |-> IF code.ok THEN GetU32(code.out) ELSE 0,
                                  ErrorText |-> text.val, Images |-> images.val])
          [] type \in {"Hello", "HelloResponse"} ->
               LET text == ReadText(rd)
               IN  whole(text, [type |-> type, Text |-> text.val])
          [] type = "SupportFormatsResponse" ->
               LET formats == ReadText(rd)
                   videoformats == IF formats.ok THEN ReadText(formats.rd) ELSE Failed(rd)
               IN  whole(videoformats, [type |-> type, formats |-> formats.val,
                                        videoformats |-> videoformats.val])
          [] OTHER -> whole([ok |-> TRUE, rd |-> rd], [type |-> type])

\* CommandSerializer::unserialize from a reader: the type, the length, the
\* payload, then the command of that type.
unserialize(rd) ==
    LET tag == ReadU32(rd)
        len == ReadU32(tag.rd)
        payload == do_read(len.rd, len.val)
    IN  IF /\ tag.ok /\ len.ok /\ len.val >= 0 /\ payload.ok
           /\ tag.val \in 1..Len(CommandTypes)
        THEN FromPayload(CommandTypes[tag.val], payload.out)
        ELSE [ok |-> FALSE, command |-> [type |-> "none"]]

InitGfx ==
    /\ SyncAtRest
    /\ \E c \in GfxCommands : ev = [op |-> "command", source |-> c]

\* CommandSerializer::serialize(&sourceCommand)
GfxSerialize ==
    /\ ev.op = "command"
    /\ ev' = [op |-> "data", source |-> ev.source, data |-> serialize(ev.source)]
    /\ UNCHANGED <<mSyncConfigs, mTable, state, errorCode, fullscan, statecachetable, debris>>
    /\ UNCHANGED <<caseInsensitive, isnetwork, ds, nodes, fsidnode, insertq,
                   deleteq, fs, cloud, notifyq, quietTime, stack, pc, envLeft, pass>>

\* StringReader reader(std::move(*data)); CommandSerializer::unserialize(reader)
GfxUnserialize ==
    /\ ev.op = "data"
    /\ LET r == unserialize([mValue |-> ev.data, mIndex |-> 0])
       IN  ev' = [op |-> "unserialized", source |-> ev.source, data |-> ev.data,
                  ok |-> r.ok, command |-> r.command]
    /\ UNCHANGED <<mSyncConfigs, mTable, state, errorCode, fullscan, statecachetable, debris>>
    /\ UNCHANGED <<caseInsensitive, isnetwork, ds, nodes, fsidnode, insertq,
                   deleteq, fs, cloud, notifyq, quietTime, stack, pc, envLeft, pass>>

NextGfx ==
    \/ GfxSerialize
    \/ GfxUnserialize

SpecGfx == InitGfx /\ [][NextGfx]_vars

----------------------------------------------------------------------------
\* Properties.

\* The last step was the entry of recursiveSync for a row with a sync node.
EnterEvent == ev.op = "enter" /\ ev.node # NullNode

\* The visited row's cloud node had commands in flight at the last entry.
PendingAtEntry ==
    /\ Top.row.cloudNode # NullNode
    /\ cloud[Top.row.cloudNode].pending # {}

\* The visited sync node was resolved in both flags at the last entry.
ResolvedAtEntry ==
    /\ ev.pre[ev.node].scanAgain = SYNCTREE_RESOLVED
    /\ ev.pre[ev.node].syncAgain = SYNCTREE_RESOLVED

\* The names of the members a child row holds.
RowMemberNames(row) ==
    (IF row.cloudNode \in {NullNode, NAME_CONFLICT} THEN {}
     ELSE {canonicalname(row.cloudNode)})
    \cup (IF row.syncNode = NullNode THEN {} ELSE {nodes[row.syncNode].name})
    \cup (IF row.fsNode = NoFS THEN {} ELSE {row.fsNode.name})

\* The rows of the last entry that hold a member named like x.
RowsNamed(x) ==
    {i \in DOMAIN ev.rows : \E m \in RowMemberNames(ev.rows[i]) : NameEq(m, x)}

\* C1: in every child row recursiveSync builds, the members that are
\* present (cloud node, sync node, filesystem entry) have names that are equal
\* under the comparator.
C1_RowNamesAgree ==
    EnterEvent =>
        \A i \in DOMAIN ev.rows :
            \A x, y \in RowMemberNames(ev.rows[i]) : NameEq(x, y)

\* C2: a name the listing holds twice or more (under the comparator) gets
\* exactly one row, that row carries NAME_CONFLICT after the cloud merge, and
\* syncItem is never called for a NAME_CONFLICT row.
C2_OneConflictRow ==
    /\ EnterEvent =>
         \A i, j \in DOMAIN ev.listing :
            (i # j /\ NameEq(ev.listing[i].name, ev.listing[j].name)) =>
                /\ Cardinality(RowsNamed(ev.listing[i].name)) = 1
                /\ \A k \in RowsNamed(ev.listing[i].name) :
                      ev.rows[k].cloudNode = NAME_CONFLICT
    /\ ev.op = "item" => ev.row.cloudNode # NAME_CONFLICT

\* C3: every nested call of recursiveSync is for a child row that has its
\* cloud node, its sync node and its filesystem entry, the sync node being a
\* folder.
C3_RecurseOnlyIntoFullFolderRows ==
    \A k \in 2..Len(stack) :
        /\ stack[k].row.cloudNode # NullNode
        /\ stack[k].row.syncNode # NullNode
        /\ stack[k].row.fsNode # NoFS
        /\ stack[k].pre[stack[k].row.syncNode].type = FOLDERNODE

\* C4: when recursiveSync is about to return from a visit that built rows,
\* the visited node's scanAgain is resolved and its syncAgain is here-only if
\* a child visit returned false, resolved otherwise.
C4_FlagsAfterVisit ==
    (stack # << >> /\ Top.phase = "done" /\ Top.kind \in {"scanned", "known"}) =>
        /\ nodes[Top.row.syncNode].scanAgain = SYNCTREE_RESOLVED
        /\ nodes[Top.row.syncNode].syncAgain =
              IF Top.ret THEN SYNCTREE_RESOLVED ELSE SYNCTREE_ACTION_HERE_ONLY

\* C5: a pass that follows a completed pass, with no change to the
\* filesystem, the cloud or the notification queue in between, creates and
\* deletes no LocalNode, queues nothing for the state cache and issues no
\* upload and no putnodes.
C5_SecondPassDoesNothing == ~(pass.second /\ pass.effects)

Propagated ==
    /\ ev.pre[ev.node].scanAgain = SYNCTREE_ACTION_HERE_AND_BELOW =>
         /\ \A c \in Children(ev.pre, ev.node) :
               nodes[c].scanAgain = SYNCTREE_ACTION_HERE_AND_BELOW
         /\ nodes[ev.node].scanAgain <= SYNCTREE_ACTION_HERE_ONLY
    /\ ev.pre[ev.node].syncAgain = SYNCTREE_ACTION_HERE_AND_BELOW =>
         /\ \A c \in Children(ev.pre, ev.node) :
               nodes[c].syncAgain = SYNCTREE_ACTION_HERE_AND_BELOW
         /\ nodes[ev.node].syncAgain <= SYNCTREE_ACTION_HERE_ONLY

\* C7 as claimed: every visit of a node whose scanAgain (syncAgain) is
\* here-and-below raises that flag to here-and-below on every child the node
\* had and leaves the node's own flag at here-only or below.
C7_EveryVisitPropagates == EnterEvent => Propagated

\* C7: a visit of a node whose scanAgain (syncAgain) is here-and-below, the
\* row's cloud node having no command in flight, raises that flag to
\* here-and-below on every child the node had and leaves the node's own flag
\* at here-only or below.
C7_UnprunedVisitPropagates == (EnterEvent /\ ~PendingAtEntry) => Propagated

\* A node with a child was entered with both flags at here-and-below and no
\* command in flight.
C7_Witness ==
    /\ EnterEvent
    /\ ~PendingAtEntry
    /\ ev.pre[ev.node].scanAgain = SYNCTREE_ACTION_HERE_AND_BELOW
    /\ ev.pre[ev.node].syncAgain = SYNCTREE_ACTION_HERE_AND_BELOW
    /\ Children(ev.pre, ev.node) # {}

\* C8: a visit of a node with both flags resolved, or of a row whose cloud
\* node has commands in flight, scans nothing, changes no LocalNode, builds
\* no rows, dispatches no syncItem and returns true.
C8_PrunedVisitHasNoEffect ==
    (EnterEvent /\ (ResolvedAtEntry \/ PendingAtEntry)) =>
        /\ nodes = ev.pre
        /\ ~ev.scanned
        /\ ev.rows = << >>
        /\ pc = "run"
        /\ Top.phase = "done"
        /\ Top.dispatched = << >>
        /\ Top.ret

\* A node that has a child and is due for a full scan was entered while its
\* cloud node had a command in flight.
C8_Witness ==
    /\ EnterEvent
    /\ PendingAtEntry
    /\ ev.pre[ev.node].scanAgain = SYNCTREE_ACTION_HERE_AND_BELOW
    /\ Children(ev.pre, ev.node) # {}

\* C9: a visit scans only if scanAgain (a here-and-below demoted) is
\* here-only and 20 ds or more have passed since lastScanTime; the scan sets
\* lastScanTime to now, scanAgain to resolved and syncAgain to here-only.  A
\* visit that wants the scan earlier scans nothing, returns true and leaves
\* scanAgain at here-only.
C9_ScanRateLimit ==
    EnterEvent =>
        /\ ev.scanned =>
             /\ ev.pre[ev.node].scanAgain # SYNCTREE_RESOLVED
             /\ ev.at - ev.pre[ev.node].lastScanTime >= 20
             /\ nodes[ev.node].lastScanTime = ev.at
             /\ nodes[ev.node].scanAgain = SYNCTREE_RESOLVED
             /\ nodes[ev.node].syncAgain = SYNCTREE_ACTION_HERE_ONLY
        /\ (/\ ~PendingAtEntry
            /\ ev.pre[ev.node].scanAgain # SYNCTREE_RESOLVED
            /\ ev.at - ev.pre[ev.node].lastScanTime < 20) =>
             /\ ~ev.scanned
             /\ nodes[ev.node].scanAgain = SYNCTREE_ACTION_HERE_ONLY
             /\ nodes[ev.node].lastScanTime = ev.pre[ev.node].lastScanTime
             /\ pc = "run"
             /\ Top.phase = "done"
             /\ Top.ret

\* A folder that was scanned before is scanned again.
C9_Witness ==
    /\ EnterEvent
    /\ ev.scanned
    /\ ev.pre[ev.node].lastScanTime > 0

\* C10: within one call of recursiveSync, the rows handed to syncItem come
\* in strictly increasing order of their names under the comparator: never a
\* smaller name after a larger one, never two rows of one name.
C10_DispatchInNameOrder ==
    stack # << >> =>
        \A i, j \in DOMAIN Top.dispatched :
            i < j => NameLess(Top.dispatched[i], Top.dispatched[j])

----------------------------------------------------------------------------
\* Notification intake properties.

\* The last step was a run of procscanq.
ProcscanqEvent == ev.op = "procscanq"

\* C11: for each notification (node, relative path) that procscanq processed,
\* if the whole path resolved the node it names has scanAgain at least
\* here-only, and if a residual path remained the deepest sync node that did
\* resolve has scanAgain here-and-below.
C11_NotificationMarksTree ==
    ProcscanqEvent =>
      \A i \in DOMAIN ev.q :
        ev.q[i].localnode # InvalidLocalNode =>
          LET found == localnodebypath(ev.pre, ev.q[i].localnode, ev.q[i].path,
                                       NullNode)
          IN  IF found.node # NullNode
              THEN nodes[found.node].scanAgain >= SYNCTREE_ACTION_HERE_ONLY
              ELSE nodes[found.parent].scanAgain = SYNCTREE_ACTION_HERE_AND_BELOW

\* C12: every run of procscanq that took a notification from the queue leaves
\* the quiet-time watermark at now + D, D being 150 ds for a file on a network
\* filesystem and 5 ds otherwise, whether or not the path resolved.
C12_QuietTimeAdvances ==
    ProcscanqEvent =>
      \A i \in DOMAIN ev.q :
        \/ quietTime = ev.at + SCANNING_DELAY_DS
        \/ isnetwork /\ quietTime = ev.at + EXTRA_SCANNING_DELAY_DS

----------------------------------------------------------------------------
\* Properties of the reverse path match score.

\* The components of a path, split at the separator.
RECURSIVE Split(_)
Split(path) ==
    IF \A i \in DOMAIN path : path[i] # Sep THEN <<path>>
    ELSE LET k == CHOOSE i \in DOMAIN path :
                    path[i] = Sep /\ \A j \in 1..(i - 1) : path[j] # Sep
         IN  <<SubSeq(path, 1, k - 1)>> \o Split(SubSeq(path, k + 1, Len(path)))

Leaf(path) == LET c == Split(path) IN c[Len(c)]

NonSeparators(path) == Cardinality({i \in DOMAIN path : path[i] # Sep})

Min(x, y) == IF x <= y THEN x ELSE y

\* The number of trailing whole components that a and b have in common.
CommonTrailingComponents(a, b) ==
    LET ca == Split(a)
        cb == Split(b)
        same(k) == \A j \in 0..(k - 1) : ca[Len(ca) - j] = cb[Len(cb) - j]
    IN  CHOOSE k \in 0..Min(Len(ca), Len(cb)) :
          same(k) /\ \A m \in (k + 1)..Min(Len(ca), Len(cb)) : ~same(m)

RECURSIVE TrailingBytes(_, _)
TrailingBytes(components, k) ==
    IF k = 0 THEN 0
    ELSE Len(components[Len(components)])
         + TrailingBytes(SubSeq(components, 1, Len(components) - 1), k - 1)

\* The longest common byte suffix of a and b.
CommonSuffix(a, b) ==
    LET same(n) == \A j \in 0..(n - 1) : a[Len(a) - j] = b[Len(b) - j]
        n == CHOOSE k \in 0..Min(Len(a), Len(b)) :
               same(k) /\ \A m \in (k + 1)..Min(Len(a), Len(b)) : ~same(m)
    IN  SubSeq(a, Len(a) - n + 1, Len(a))

\* The bytes of a common suffix that count: those behind its first separator.
CountedBytes(suffix) ==
    IF \A i \in DOMAIN suffix : suffix[i] # Sep THEN 0
    ELSE LET k == CHOOSE i \in DOMAIN suffix :
                    suffix[i] = Sep /\ \A j \in 1..(i - 1) : suffix[j] # Sep
         IN  NonSeparators(SubSeq(suffix, k, Len(suffix)))

ScoreEvent == ev.op = "score"

\* C17: the reverse path match score is symmetric in its two paths.
C17_ScoreSymmetric == ScoreEvent => ev.ab = ev.ba

C17_Witness == ScoreEvent /\ ev.a # ev.b /\ ev.ab > 0 /\ Len(ev.a) # Len(ev.b)

\* C18 as stated: the score is the number of non-separator bytes of the longest
\* run of whole trailing components that a and b share, 0 for an empty path,
\* positive only with identical leaf names, and length minus separators for
\* identical paths.
C18_ScoreCountsWholeComponents ==
    ScoreEvent =>
      /\ ev.ab = TrailingBytes(Split(ev.a), CommonTrailingComponents(ev.a, ev.b))
      /\ (ev.a = << >> \/ ev.b = << >>) => ev.ab = 0
      /\ ev.ab > 0 => Leaf(ev.a) = Leaf(ev.b)
      /\ ev.a = ev.b => ev.ab = NonSeparators(ev.a)

\* C18 amended: the score is 0 for an empty path, length minus separators for
\* identical paths, and otherwise the number of non-separator bytes of the
\* longest common byte suffix that lie behind that suffix's first separator
\* (a trailing component counts only when the separator in front of it matched
\* too); it is positive only with identical leaf names.
C18_ScoreCountsClosedComponents ==
    ScoreEvent =>
      /\ (ev.a = << >> \/ ev.b = << >>) => ev.ab = 0
      /\ ev.a = ev.b => ev.ab = NonSeparators(ev.a)
      /\ ev.a # ev.b => ev.ab = CountedBytes(CommonSuffix(ev.a, ev.b))
      /\ ev.ab > 0 => Leaf(ev.a) = Leaf(ev.b)

\* One path is a whole trailing component of the other, and scores 0.
C18_Witness ==
    /\ ScoreEvent
    /\ ev.a # ev.b
    /\ ev.ab = 0
    /\ CommonTrailingComponents(ev.a, ev.b) > 0
    /\ Leaf(ev.a) # << >>

----------------------------------------------------------------------------
\* Properties of the filesystem-id assignment.

\* The last step was a run of assignFilesystemIds; it got past the root checks.
AssignEvent == ev.op = "assignfsids"
AssignRan == AssignEvent /\ ev.past

\* The path of a node relative to the sync root, as a sequence of names.
RECURSIVE NodePath(_, _)
NodePath(ns, l) ==
    IF ns[l].parent = NullNode THEN << >>
    ELSE Append(NodePath(ns, ns[l].parent), ns[l].name)

\* The live entry at path q and everything above it can be read.
Visible(q) == \A k \in 0..Len(q) : fs[SubSeq(q, 1, k)].access = "ok"

\* The live files a cached file node may stand for: same size and mtime.
SameLightFingerprint(l, q) ==
    /\ ev.pre[l].type = FILENODE /\ fs[q].type = FILENODE
    /\ ev.pre[l].size = fs[q].size /\ ev.pre[l].mtime = fs[q].mtime

\* The file of cached node l is gone and q, in the same folder under another
\* name that no cached node has, is a live file with its size and mtime.
RenamedTo(l, q) ==
    LET old == NodePath(ev.pre, l)
    IN  /\ l # RootNode /\ q # << >> /\ Visible(q)
        /\ SameLightFingerprint(l, q)
        /\ old \notin DOMAIN fs
        /\ Len(q) = Len(old)
        /\ SubSeq(q, 1, Len(q) - 1) = SubSeq(old, 1, Len(old) - 1)
        /\ q[Len(q)] # ev.pre[l].name
        /\ \A m \in DOMAIN ev.pre : NodePath(ev.pre, m) # q

\* q is the one live file with the size, mtime and leaf name of cached node l,
\* and l the one cached node with them.
MovedTo(l, q) ==
    LET candidate(m, r) == /\ m # RootNode /\ r # << >> /\ Visible(r)
                           /\ SameLightFingerprint(m, r)
                           /\ r[Len(r)] = ev.pre[m].name
    IN  /\ candidate(l, q)
        /\ \A r \in DOMAIN fs : candidate(l, r) => r = q
        /\ \A m \in DOMAIN ev.pre : candidate(m, q) => m = l

\* C13 as stated: a cached node whose file was renamed in place (A/x gone,
\* A/z live with the same size and mtime) is bound to the fsid of the renamed
\* file.
C13_RenameSurvivesRestart ==
    AssignRan =>
      \A l \in DOMAIN ev.pre, q \in DOMAIN fs :
        RenamedTo(l, q) => nodes[l].fsid = fs[q].fsid

\* C13 amended: a cached node is never bound to a renamed file (the leaf names
\* differ, the score is 0); every bound node carries the fsid of a readable
\* live entry of its own leaf name and type; and a cached file node is bound
\* to the live file of its size, mtime and leaf name when there is one such
\* file and one such node, wherever the file lies.
C13_MoveSurvivesRestartRenameDoesNot ==
    AssignRan =>
      /\ \A l \in DOMAIN ev.pre, q \in DOMAIN fs :
           RenamedTo(l, q) => nodes[l].fsid # fs[q].fsid
      /\ \A l \in DOMAIN nodes :
           nodes[l].fsid # UNDEF =>
             \E q \in DOMAIN fs \ {<< >>} :
               /\ Visible(q) /\ fs[q].fsid = nodes[l].fsid
               /\ q[Len(q)] = nodes[l].name /\ fs[q].type = nodes[l].type
      /\ \A l \in DOMAIN ev.pre, q \in DOMAIN fs :
           MovedTo(l, q) => nodes[l].fsid = fs[q].fsid

\* A renamed file whose cached node stays unbound.
C13_Witness ==
    /\ AssignRan
    /\ \E l \in DOMAIN ev.pre, q \in DOMAIN fs :
         /\ RenamedTo(l, q) /\ nodes[l].fsid = UNDEF
         /\ NodePath(ev.pre, l) = <<"A", "x">> /\ q = <<"A", "z">>

\* The nodes the run has bound.
BoundNodes == {l \in DOMAIN nodes : nodes[l].fsid # UNDEF}

\* C14: the bindings of one run are a partial one-to-one matching of the
\* cached nodes other than the root and the live entries: no fsid on two
\* nodes, no node assigned twice (as many assignments as bound nodes), the
\* root unbound, and every bound pair of equal light fingerprint with a
\* reverse path match score above 0.
C14_BindingsAreAMatching ==
    AssignRan =>
      /\ RootNode \notin BoundNodes
      /\ \A l, m \in BoundNodes : nodes[l].fsid = nodes[m].fsid => l = m
      /\ ev.assignmentCount = Cardinality(BoundNodes)
      /\ \A l \in BoundNodes :
           \E file \in collectAllFiles(fs, << >>).files :
             /\ file.fsid = nodes[l].fsid
             /\ computeFingerprintOfNode(ev.pre, l).ok
             /\ computeFingerprintOfNode(ev.pre, l).ffp = file.ffp
             /\ computeReversePathMatchScore(getLocalPath(ev.pre, l),
                                             FsLocalPath(file.path)) > 0

\* Two nodes of one fingerprint are bound, to different entries.
C14_Witness ==
    /\ AssignRan
    /\ \E l, m \in BoundNodes :
         /\ l # m
         /\ computeFingerprintOfNode(ev.pre, l).ffp
              = computeFingerprintOfNode(ev.pre, m).ffp

\* C15: after a run that got past the root checks the index and the tree
\* agree: a node with an fsid is the node the index holds under it, a node the
\* run did not bind has no fsid, and the index holds no entry of a node of
\* this sync that is not bound to that fsid.
C15_IndexAgreesWithTree ==
    AssignRan =>
      /\ \A l \in BoundNodes :
           nodes[l].fsid \in DOMAIN fsidnode /\ fsidnode[nodes[l].fsid] = l
      /\ Cardinality(BoundNodes) <= ev.assignmentCount
      /\ \A g \in DOMAIN fsidnode :
           fsidnode[g] \in DOMAIN nodes => nodes[fsidnode[g]].fsid = g

\* A node that had an fsid and an index entry before the run is left unbound.
C15_Witness ==
    /\ AssignRan
    /\ BoundNodes # {}
    /\ \E l \in DOMAIN nodes :
         /\ nodes[l].fsid = UNDEF
         /\ ev.pre[l].fsid \in DOMAIN ev.preIdx /\ ev.preIdx[ev.pre[l].fsid] = l

\* The sync root cannot be opened, is not a folder, or is a symlink.
RootUnusable ==
    \/ fs[<< >>].access = "locked"
    \/ fs[<< >>].type # FOLDERNODE
    \/ fs[<< >>].access = "symlink"

----------------------------------------------------------------------------
\* Properties of the state cache.

\* C20: while the sync is canceled no state-cache write happens: no step
\* taken in the canceled state changes the insertion queue, the deletion
\* queue, or the table (its rows, and the count of begin, del, put and commit
\* calls made on it).
C20_CanceledWritesNothing ==
    [][(state = SYNC_CANCELED /\ state' = SYNC_CANCELED)
         => /\ insertq' = insertq
            /\ deleteq' = deleteq
            /\ statecachetable' = statecachetable]_vars

\* statecachedel was called on a canceled sync for a node that was queued for
\* insertion or had a row in the table.
C20_Witness ==
    /\ ev.op = "statecachedel"
    /\ ev.state = SYNC_CANCELED
    /\ ev.l \in ev.insertq \/ ev.l \in ev.table.rows



\* The calls of one cachenodes batch, and the positions of its puts.
BatchEvent == ev.op = "cachenodes" /\ ev.log # << >>

PutAt(i) == ev.log[i][1] = "put"

CallsOf(kind) == {i \in 1..Len(ev.log) : ev.log[i][1] = kind}

\* C21: in one cachenodes batch every node is put after its parent got a dbid
\* (before the call, or by a put earlier in the batch) unless the parent is the
\* root; the transaction is begun first and committed once, last; and the
\* nodes left in insertq are exactly the queued ones whose parent, not the
\* root, still has dbid 0.
C21_ParentsPutBeforeChildren ==
    BatchEvent =>
      /\ CallsOf("begin") = {1}
      /\ CallsOf("commit") = {Len(ev.log)}
      /\ \A i \in CallsOf("put") :
           LET l == ev.log[i][2]
               p == ev.ns[l].parent
           IN  /\ l \in ev.insertq
               /\ \A j \in CallsOf("put") : ev.log[j][2] = l => j = i
               /\ \/ p = RootNode
                  \/ ev.ns[p].dbid # 0
                  \/ \E j \in CallsOf("put") : j < i /\ ev.log[j][2] = p
      /\ insertq = {l \in ev.insertq : /\ ev.ns[l].parent # RootNode
                                       /\ nodes[ev.ns[l].parent].dbid = 0}
      /\ ev.insertq \ insertq = {ev.log[i][2] : i \in CallsOf("put")}

\* A batch that passed over a child whose parent had no dbid yet, put the
\* parent, and put the child on the next sweep.
C21_Witness ==
    /\ BatchEvent
    /\ \E i, j \in CallsOf("put") :
         /\ j < i
         /\ ev.log[i][2] < ev.log[j][2]
         /\ ev.ns[ev.log[i][2]].parent = ev.log[j][2]
         /\ ev.ns[ev.log[j][2]].dbid = 0
         /\ ev.failing = {}

\* C22: a row whose write failed during cachenodes is still queued when
\* cachenodes returns: a node whose put failed is in insertq, a dbid whose del
\* failed is in deleteq.
C22_FailedWritesStayQueued ==
    BatchEvent =>
      /\ \A i \in CallsOf("put") :
           ev.log[i][2] \in ev.failing => ev.log[i][2] \in insertq
      /\ \A i \in CallsOf("del") :
           ev.log[i][2] \in ev.failing => ev.log[i][2] \in deleteq


\* C23: movetolocaldebris returns true exactly when a rename succeeded, and
\* makes no rename after the first success; it returns false at once on a
\* transient rename error, and on a failure that is neither transient nor a
\* name collision once the daily folder is there; it tries at most
\* DebrisTries suffixed folders, and makes at most DebrisTries - DebrisFirst
\* renames before it returns.
C23_DebrisReturns ==
    ev.op = "renamelocal" =>
      /\ debris.ret = "true" <=> ev.rn = "ok"
      /\ debris.ret = "true" <=> ev.succeeded = 1
      /\ ev.succeeded <= 1
      /\ ev.rn = "transient" => debris.ret = "false"
      /\ ev.rn = "other" /\ ev.havedir => debris.ret = "false"
      /\ ev.rn = "exists" /\ ev.i + 1 < DebrisTries => debris.ret = "running"
      /\ ev.suffixed <= DebrisTries
      /\ ev.renames <= DebrisTries - DebrisFirst
      /\ ev.renames = DebrisTries - DebrisFirst => debris.ret # "running"

\* Every suffixed folder collided and the last rename collided too: the
\* call gave up and returned false.
C23_Witness ==
    /\ ev.op = "renamelocal"
    /\ ev.suffixed = DebrisTries
    /\ ev.rn = "exists"
    /\ debris.ret = "false"


\* A row of syncItem, and the rows by what they hold.
ItemEvent == ev.op = "item"

BothSidesGone ==
    /\ ItemEvent
    /\ ev.row.syncNode # NullNode
    /\ ev.row.fsNode = NoFS
    /\ ev.row.cloudNode = NullNode

\* C24: a sync node whose filesystem entry and cloud node are both gone is
\* not destroyed, and its dbid not queued for deletion, by the first pass that
\* finds it so.
C24_MissingNodeOutlivesFirstPass ==
    (BothSidesGone /\ ~pass.prevDone) =>
      /\ ev.row.syncNode \in DOMAIN nodes
      /\ deleteq = {}


CloudOnly ==
    /\ ItemEvent
    /\ ev.row.syncNode = NullNode
    /\ ev.row.fsNode = NoFS
    /\ ev.row.cloudNode # NullNode

\* C25: for a row that has a cloud node only, syncItem creates a sync node
\* under the parent row's sync node, with the row's name.
C25_CloudOnlyRowGetsSyncNode ==
    CloudOnly =>
      \E l \in DOMAIN nodes : /\ nodes[l].parent = ev.parent
                              /\ nodes[l].name = ev.leaf


UploadStarted == ItemEvent /\ ev.act = "upload" /\ ~ev.crashed

\* C27: whenever syncItem starts an upload, the sync node's fingerprint is
\* valid, the node has no transfer in flight, and the parent row has a cloud
\* node.
C27_UploadNeedsValidFingerprint ==
    UploadStarted =>
      /\ ev.pre[ev.row.syncNode].isvalid
      /\ ~ev.pre[ev.row.syncNode].transfer
      /\ nodes[ev.row.syncNode].h # UNDEF


FsOnly ==
    /\ ItemEvent
    /\ ev.row.syncNode = NullNode
    /\ ev.row.fsNode # NoFS
    /\ ev.row.cloudNode = NullNode

\* C28: for a row that has a filesystem entry only, syncItem creates exactly
\* one sync node, a child of the parent row's sync node with the entry's name,
\* type, fingerprint and fsid, registered in the fsid index and queued for
\* insertion into the state cache, and starts no transfer for it.
C28_FsOnlyRowCreatesOneNode ==
    FsOnly =>
      LET l == ev.created
      IN  /\ ~ev.crashed
          /\ l \notin DOMAIN ev.pre
          /\ DOMAIN nodes = DOMAIN ev.pre \cup {l}
          /\ nodes[l].parent = ev.parent
          /\ nodes[l].name = ev.row.fsNode.name
          /\ nodes[l].type = ev.row.fsNode.type
          /\ nodes[l].isvalid = ev.row.fsNode.isvalid
          /\ nodes[l].fsid = ev.row.fsNode.fsid
          /\ ev.row.fsNode.fsid # UNDEF =>
               /\ ev.row.fsNode.fsid \in DOMAIN fsidnode
               /\ fsidnode[ev.row.fsNode.fsid] = l
          /\ l \in insertq
          /\ ~nodes[l].transfer
          /\ \A k \in DOMAIN ev.pre : nodes[k] = ev.pre[k]


\* A row with a filesystem entry only, whose fsid belongs to a sync node that
\* exists under another parent.
MoveFound ==
    /\ FsOnly
    /\ ~ev.crashed
    /\ ev.row.fsNode.fsid # UNDEF
    /\ \E k \in DOMAIN ev.pre : /\ ev.pre[k].fsid = ev.row.fsNode.fsid
                                /\ ev.pre[k].parent # ev.parent

\* C26: when a row's filesystem entry carries the fsid of a sync node that
\* exists elsewhere, syncItem moves that sync node under the row's parent and
\* creates no second sync node with the fsid; nothing is uploaded.
C26_MoveReparentsNode ==
    MoveFound =>
      /\ DOMAIN nodes = DOMAIN ev.pre
      /\ \A k \in DOMAIN ev.pre :
           ev.pre[k].fsid = ev.row.fsNode.fsid => nodes[k].parent = ev.parent
      /\ \A k, m \in DOMAIN nodes :
           (nodes[k].fsid = nodes[m].fsid /\ nodes[k].fsid # UNDEF) => k = m
      /\ \A k \in DOMAIN nodes : ~nodes[k].transfer


NotifiedFolder(n) ==
    /\ ProcscanqEvent
    /\ ev.at + TickDs <= MaxDs
    /\ \E i \in 1..Len(ev.q) :
         /\ ev.q[i].localnode \in DOMAIN ev.pre
         /\ localnodebypath(ev.pre, ev.q[i].localnode, ev.q[i].path, NullNode).node = n
         /\ ev.pre[n].type = FOLDERNODE

\* recursiveSync has just scanned the folder n.
ScannedFolder(n) == ev.op = "enter" /\ ev.node = n /\ ev.scanned

\* The folder of the sync node n is a folder on the disk.
FolderOnDisk(ns, n) ==
    \/ n = RootNode
    \/ /\ NodePath(ns, n) \in DOMAIN fs
       /\ fs[NodePath(ns, n)].type = FOLDERNODE

\* C30: under the scheduling of the main loop (passes repeat, the clock
\* advances, every command completes), every notification that procscanq has
\* processed and whose path leads to the sync node of a folder on the disk is
\* followed by a scan of that folder in a later pass, as long as the process
\* lives.
C30_NotifiedFolderIsScanned ==
    \A n \in NodeIds :
       (NotifiedFolder(n) /\ FolderOnDisk(ev.pre, n))
           ~> (ScannedFolder(n) \/ pc = "crashed")

\* The elements assignFilesystemIdsImpl built in the call that has just
\* returned: the pairs of a node and a file of one fingerprint whose paths
\* score above 0, for every fingerprint of a cached node.
AssignCandidates ==
    LET cleared == collectAllLocalNodes(ev.pre, ev.preIdx)
        files == collectAllFiles(fs, << >>).files
    IN  UNION {PositiveScores(Elements(cleared.ns, cleared.localnodes, files, ffp)) :
                 ffp \in {n.ffp : n \in cleared.localnodes}}

\* Node and file of the element e are bound to each other.
BoundPair(e) == nodes[e.l].fsid = e.fsid

\* The elements of the fingerprint of e.
SameClass(e) ==
    LET cleared == collectAllLocalNodes(ev.pre, ev.preIdx)
        ffpOf(l) == (CHOOSE n \in cleared.localnodes : n.l = l).ffp
    IN  {d \in AssignCandidates : ffpOf(d.l) = ffpOf(e.l)}

\* C31: after assignFilesystemIds has gone through the fingerprints, every
\* element (node, file, score) that is not bound has in its fingerprint a
\* bound element of at least its score with the same node or the same file.
C31_GreedyRespectsScoreOrder ==
    (ev.op = "assignfsids" /\ ev.past) =>
        \A e \in AssignCandidates :
           ~BoundPair(e) =>
              \E d \in SameClass(e) :
                 /\ BoundPair(d)
                 /\ d.score >= e.score
                 /\ (d.l = e.l \/ d.fsid = e.fsid)

\* A call in which an element lost its node to an element of a higher score
\* and another lost its file to one.
C31_Witness ==
    /\ ev.op = "assignfsids" /\ ev.past
    /\ \E e, d \in AssignCandidates :
         /\ ~BoundPair(e) /\ BoundPair(d)
         /\ d.l = e.l /\ d.score > e.score
    /\ \E e, d \in AssignCandidates :
         /\ ~BoundPair(e) /\ BoundPair(d)
         /\ d.fsid = e.fsid /\ d.l # e.l /\ d.score > e.score


\* C32: a changestate call whose arguments equal the current state and error
\* changes nothing and calls nothing; any other call leaves state and
\* errorCode at its arguments and fullscan false, and calls
\* client->changeSyncState(tag, newstate, newSyncError) exactly once, unless
\* the new state is SYNC_CANCELED, in which case it calls nothing.
C32_ChangeStateNotifiesOnce ==
    ev.op = "changestate" =>
        IF ev.newstate = ev.pre.state /\ ev.newSyncError = ev.pre.errorCode
        THEN /\ ev.calls = << >>
             /\ state = ev.pre.state
             /\ errorCode = ev.pre.errorCode
             /\ fullscan = ev.pre.fullscan
        ELSE /\ state = ev.newstate
             /\ errorCode = ev.newSyncError
             /\ fullscan = FALSE
             /\ ev.calls = IF ev.newstate = SYNC_CANCELED THEN << >>
                           ELSE <<<<SyncTag, ev.newstate, ev.newSyncError>>>>

\* A call that changed the error alone, with a full scan due, and reported it.
C32_Witness ==
    /\ ev.op = "changestate"
    /\ ev.newstate = ev.pre.state
    /\ ev.newSyncError # ev.pre.errorCode
    /\ ev.pre.fullscan
    /\ Len(ev.calls) = 1


\* The children of the nodes of S that answer to the component, by name or
\* by short name.
Answering(ns, S, component) ==
    {c \in DOMAIN ns :
        /\ ns[c].parent \in S
        /\ \/ ns[c].name = component
           \/ ShortNameOf(ns, c) # NoShortName /\ ShortNameOf(ns, c) = component}

\* The nodes reached from start by the first k components of rel.
RECURSIVE ReachedBy(_, _, _, _)
ReachedBy(ns, start, rel, k) ==
    IF k = 0 THEN {start}
    ELSE Answering(ns, ReachedBy(ns, start, rel, k - 1), rel[k])

\* C33: a localnodebypath call that is given no start node and a path outside
\* the sync root returns NULL with a NULL parent.  Any other call, with K the
\* number of leading components that resolve from the start node (the root
\* when none is given): if K is the whole path it returns the node reached
\* and an empty residual path; otherwise it returns NULL, the parent is the
\* node the first K components reach, and the residual path is the path from
\* component K + 1 on.
C33_LookupResolvesDeepest ==
    ev.op = "localnodebypath" =>
        IF ev.l = NullNode /\ ~isContainingPathOf(RootPrefix, ev.localpath)
        THEN ev.r.node = NullNode /\ ev.r.parent = NullNode
        ELSE LET start == IF ev.l = NullNode THEN RootNode ELSE ev.l
                 rel == IF ev.l = NullNode
                        THEN SubSeq(ev.localpath, Len(RootPrefix) + 1,
                                    Len(ev.localpath))
                        ELSE ev.localpath
                 K == CHOOSE k \in 0..Len(rel) :
                        /\ ReachedBy(nodes, start, rel, k) # {}
                        /\ k < Len(rel) => ReachedBy(nodes, start, rel, k + 1) = {}
             IN  IF K = Len(rel)
                 THEN /\ ev.r.node \in ReachedBy(nodes, start, rel, K)
                      /\ ev.r.residual = << >>
                 ELSE /\ ev.r.node = NullNode
                      /\ ev.r.parent \in ReachedBy(nodes, start, rel, K)
                      /\ ev.r.residual = SubSeq(rel, K + 1, Len(rel))

\* A call without start node whose first component resolved through a short
\* name and whose second component is missing.
C33_Witness ==
    /\ ev.op = "localnodebypath"
    /\ ev.l = NullNode
    /\ Len(ev.localpath) = 3
    /\ ev.r.node = NullNode
    /\ ev.r.parent \notin {NullNode, RootNode}
    /\ nodes[ev.r.parent].name # ev.localpath[2]
    /\ nodes[ev.r.parent].sname = ev.localpath[2]
    /\ ev.r.residual = <<ev.localpath[3]>>


\* The node d was missing for two scans when the sync's scanseqno was seq.
MissingTwice(ns, d, seq) == seq - ns[d].scanseqno > 1

\* The nodes above d, up to the root.
RECURSIVE AncestorsOf(_, _)
AncestorsOf(ns, d) ==
    IF ns[d].parent = NullNode THEN {}
    ELSE {ns[d].parent} \cup AncestorsOf(ns, ns[d].parent)

\* The nodes strictly between l and its descendant d.
BetweenNodes(ns, l, d) == AncestorsOf(ns, d) \cap (Subtree(ns, l) \ {l})

\* The descendants of l that deletemissing(l) is to delete themselves: missing
\* for two scans, below nodes that are not.
TopMissing(ns, l, seq) ==
    {d \in Subtree(ns, l) \ {l} :
        /\ MissingTwice(ns, d, seq)
        /\ \A a \in BetweenNodes(ns, l, d) : ~MissingTwice(ns, a, seq)}

\* C34: deletemissing(l) deletes (and unlinks) exactly the descendants of l
\* that were missing for two scans below nodes that were not, each with its
\* subtree, and leaves every other node as it was; afterwards no descendant of
\* l is missing for two scans, and every descendant that was not, and had no
\* such node between l and itself, is still there.
C34_DeleteMissingPrunesStale ==
    ev.op = "deletemissing" =>
        LET top == TopMissing(ev.pre, ev.l, ev.scanseqno)
        IN  /\ ev.unlinked = top
            /\ DOMAIN ev.pre \ DOMAIN nodes = UNION {Subtree(ev.pre, d) : d \in top}
            /\ \A x \in DOMAIN nodes : nodes[x] = ev.pre[x]
            /\ \A d \in Subtree(nodes, ev.l) \ {ev.l} :
                  ~MissingTwice(nodes, d, ev.scanseqno)
            /\ \A d \in Subtree(ev.pre, ev.l) \ {ev.l} :
                  (\A a \in BetweenNodes(ev.pre, ev.l, d) \cup {d} :
                      ~MissingTwice(ev.pre, a, ev.scanseqno))
                  => d \in DOMAIN nodes

\* A call on the root that kept node 2, deleted node 3 inside it, and with it
\* node 4, which was itself not missing.
C34_Witness ==
    /\ ev.op = "deletemissing"
    /\ ev.l = RootNode
    /\ ev.pre[3].parent = 2 /\ ev.pre[4].parent = 3
    /\ ev.unlinked = {3}
    /\ ~MissingTwice(ev.pre, 4, ev.scanseqno)
    /\ DOMAIN nodes = {1, 2}


\* C35: recursiveSync reads and writes through no absent member of its row:
\* it is not entered on a row without a sync node (the flags of the sync node
\* are the first thing it reads), and on a row without a cloud node it
\* returns at one of the early returns, before the cloud node's children are
\* read.
C35_NoAbsentMemberIsRead ==
    (ev.op = "enter" /\ stack # << >>) =>
        /\ ev.kind # "nullsync"
        /\ Top.row.cloudNode = NullNode => ev.kind \in {"resolved", "pending", "toosoon"}


\* The syncable cloud children of h whose names equal name under the
\* comparator.
CloudChildrenNamed(h, name) ==
    {c \in DOMAIN cloud : /\ cloud[c].parent = h /\ cloud[c].syncable
                          /\ NameEq(canonicalname(c), name)}

\* C36: when two or more syncable cloud children of the visited folder have
\* names equal to a row's name, the row loop dispatches no upload and no
\* putnodes for that row.
C36_ConflictedCloudNameIsLeftAlone ==
    [][(/\ pc = "run" /\ stack # << >> /\ Top.phase = "loop"
        /\ ev'.op = "item"
        /\ Top.row.cloudNode # NullNode
        /\ Cardinality(CloudChildrenNamed(Top.row.cloudNode, ev'.leaf)) >= 2)
       => ev'.act \notin {"upload", "putnodes"}]_vars


\* Nothing is left to arrive and nothing changes the trees: the watcher and
\* the surroundings are done, no notification is queued, no cloud command is
\* pending, the pass has dispatched no action, and the program runs.
Settled ==
    /\ envLeft = 0
    /\ notifyq = << >>
    /\ \A h \in DOMAIN cloud : cloud[h].pending = {}
    /\ ~pass.effects
    /\ pc # "crashed"

\* The root row is one that recursiveSync returns on at the pruning check.
RootResolved ==
    /\ nodes[RootNode].scanAgain = SYNCTREE_RESOLVED
    /\ nodes[RootNode].syncAgain = SYNCTREE_RESOLVED

\* C37: once nothing is left to arrive and the trees have stopped changing,
\* the passes from the root reach a state from which the root's scanAgain and
\* syncAgain are resolved for good, so that every later pass returns at the
\* pruning check.
C37_ReconciliationQuiesces == <>[]Settled => <>[]RootResolved


\* The nodes the last call on the queues was about.
QueueSubject ==
    CASE ev.op = "statecacheadd" -> {ev.l}
      [] ev.op = "del" -> {ev.l}
      [] ev.op = "statecachedel" -> Subtree(ev.ns, ev.l)
      [] OTHER -> {}

\* The deletion queue dq mentions the node l of the tree ns.
DeletionPending(ns, l, dq) == ns[l].dbid # 0 /\ ns[l].dbid \in dq

\* No node of the tree is pending in both queues.
NotInBothQueues ==
    \A l \in insertq \cap DOMAIN nodes : ~DeletionPending(nodes, l, deleteq)

\* A call for other nodes leaves the queues as they were about the node.
OthersKeepTheirQueue ==
    ev.op \in {"statecacheadd", "del", "statecachedel"} =>
        \A x \in DOMAIN ev.ns \ QueueSubject :
            /\ x \in insertq <=> x \in ev.insertq
            /\ DeletionPending(ev.ns, x, deleteq) <=> DeletionPending(ev.ns, x, ev.deleteq)

\* After statecacheadd(l) the insertion queue and only it mentions l; after
\* statecachedel(l) the deletion queue mentions l if l has a dbid, and the
\* insertion queue does not.
LastCallDecides ==
    /\ ev.op = "statecacheadd" =>
          ev.l \in insertq /\ ~DeletionPending(ev.ns, ev.l, deleteq)
    /\ ev.op \in {"del", "statecachedel"} =>
          \A x \in QueueSubject :
             /\ x \notin insertq
             /\ ev.ns[x].dbid # 0 => ev.ns[x].dbid \in deleteq

\* C38 as stated: after any calls of statecacheadd, statecachedel and
\* cachenodes no node is pending in both queues, and the most recent of
\* statecacheadd(l) and statecachedel(l) decides which queue mentions l.
C38_LastCallDecidesTheQueue ==
    ev.op \in {"statecacheadd", "del", "statecachedel", "cachenodes"} =>
        NotInBothQueues /\ OthersKeepTheirQueue /\ LastCallDecides

\* C38, amended: no node is pending in both queues; on a sync that is not
\* canceled the most recent of statecacheadd(l) and statecachedel(l) decides
\* which queue mentions l; on a canceled sync either call leaves both queues
\* as they were.
C38_LastCallDecidesUnlessCanceled ==
    ev.op \in {"statecacheadd", "del", "statecachedel", "cachenodes"} =>
        /\ NotInBothQueues
        /\ OthersKeepTheirQueue
        /\ ev.state # SYNC_CANCELED => LastCallDecides
        /\ (ev.state = SYNC_CANCELED /\ ev.op # "cachenodes") =>
              insertq = ev.insertq /\ deleteq = ev.deleteq

\* statecacheadd for a node whose dbid was queued for deletion: the node is
\* queued for insertion and its dbid no longer for deletion.
C38_Witness ==
    /\ ev.op = "statecacheadd"
    /\ ev.state # SYNC_CANCELED
    /\ DeletionPending(ev.ns, ev.l, ev.deleteq)
    /\ ev.l \in insertq
    /\ ~DeletionPending(ev.ns, ev.l, deleteq)


\* C39: whenever syncItem creates a sync node from a filesystem entry, the
\* entry's fingerprint is valid, be the entry a file, a folder or one that
\* could not be opened.
C39_CreatedFromValidFingerprint ==
    (ev.op = "item" /\ ev.act = "create") => ev.row.fsNode.isvalid


\* C40: in a SyncConfigBag backed by a table the stored configs have pairwise
\* distinct dbids, every dbid is below the table's nextid, an insert for a tag
\* the bag holds keeps the dbid of the tag, and an insert whose put failed
\* leaves mSyncConfigs and nextid as they were.
C40_BagKeepsDbidsApart ==
    /\ \A t1, t2 \in DOMAIN mSyncConfigs :
          t1 # t2 => mSyncConfigs[t1].dbid # mSyncConfigs[t2].dbid
    /\ \A t \in DOMAIN mSyncConfigs : mSyncConfigs[t].dbid < mTable.nextid
    /\ (ev.op = "insert" /\ ev.ok /\ ev.tag \in DOMAIN ev.map) =>
          /\ ev.tag \in DOMAIN mSyncConfigs
          /\ mSyncConfigs[ev.tag].dbid = ev.map[ev.tag].dbid
    /\ (ev.op = "insert" /\ ~ev.ok) =>
          mSyncConfigs = ev.map /\ mTable.nextid = ev.table.nextid

\* After a clear, a failed insert and an insert of both tags, the second of
\* them again with new data: two configs with the dbids 0 and 1.
C40_Witness ==
    /\ ev.op = "insert" /\ ev.ok
    /\ ev.tag \in DOMAIN ev.map
    /\ mSyncConfigs[ev.tag].data # ev.map[ev.tag].data
    /\ DOMAIN mSyncConfigs = ConfigTags
    /\ {mSyncConfigs[t].dbid : t \in ConfigTags} = {0, 1}
    /\ mTable.nextid = 2


====
